---------------------------- MODULE Spec2Model ----------------------------
(***************************************************************************)
(* UniMix messaging core: the MessageBus (primary/fallback publish over a  *)
(* registry of transports) and the SerialTransport reconnection state      *)
(* machine.  Node's event loop is modelled as interleaved atomic steps:    *)
(* one step is one synchronous run of a handler up to its next await.      *)
(***************************************************************************)
EXTENDS Integers, Sequences, FiniteSets, Bags, TLC

(***************************************************************************)
(* Bounds                                                                  *)
(***************************************************************************)
MaxCalls == 2          \* publish calls issued on the bus in one behaviour
MaxPorts == 2          \* SerialPort objects that can still raise events, at once
MaxRetries == 8        \* cap on reconnectAttempts along a single chain of retries
MaxAttemptsCap == 3    \* cap on reconnectAttempts once timers or attempts overlap
MaxStrayTimers == 1    \* cap on pending timers that reconnectTimer no longer refers to
MaxReceived == 2       \* inbound messages forwarded to the bus in one behaviour
MaxOps == 3            \* calls made on the bus in one behaviour, where they are counted
MaxRemovals == 1       \* removeTransport calls awaiting a disconnect at once

Calls == 1..MaxCalls

\* The configured transports, in the order of the configuration.  A transport
\* object is identified with the name it is constructed with and registered
\* under.
ConfigTransports == <<"serial-primary", "mqtt-primary", "mqtt-msgbus">>
Objs == {ConfigTransports[i] : i \in 1..Len(ConfigTransports)}
Names == Objs
NoObj == "no-transport"   \* undefined (no transport object)
NoName == "undefined"     \* primaryTransportName not set
ConfigIndex(o) == CHOOSE i \in 1..Len(ConfigTransports) : ConfigTransports[i] = o

VARIABLES
  \* ---- MessageBus ----
  transports,            \* Map<string, ITransport>, in insertion order
  primaryTransportName,  \* name of the primary, or NoName
  fallbackEnabled,       \* config.fallbackEnabled
  messagesSent,
  lastActivity,          \* "undefined" or "set"
  connected,             \* per transport object: what isConnected() returns
  calls,                 \* the publish calls and where each one stands
  \* ---- SerialTransport ----
  config,                \* SerialTransportConfig (reconnection settings)
  serial,                \* the transport's fields, its port objects and timers
  lastCall,              \* history: the last of connect(), disconnect() and
                         \* forceReconnect() to be called, and for disconnect()
                         \* whether the transport was Reconnecting
  subscribedTopics,      \* SerialTransport.subscribedTopics
  delivery,              \* history: what became of the last inbound line
  mqtt,                  \* MqttTransport and its MqttClient
  mqttDelivery,          \* history: what became of the last message from the broker
  router,                \* MessageRouter.handlers: message type to handler
  routing,               \* the routeMessage call in progress, or the last one
  messageHandlers,       \* MessageBus.messageHandlers: a Set, in insertion order
  messagesReceived,      \* MessageBus.messagesReceived
  dispatch,              \* history: the handlers the last inbound message was handed to
  busConfig,             \* MessageBus.config.primaryTransport
  removals,              \* removeTransport calls awaiting transport.disconnect()
  thrown,                \* the error thrown by the last setTransport call
  removed,               \* history: the primary the last deletion removed, if it removed one
  fanout,                \* the subscribe, connectAll or disconnectAll call in progress, or the last one
  opsIssued,             \* the number of calls made on the bus so far
  serialHandlers,        \* SerialTransport.messageHandlers: a Set, in insertion order
  written,               \* the publish call on the serial transport in progress, or the last one
  publisher,             \* MessagePublisher.publisher: "null" or "bus"
  facade,                \* the last call of MessagePublisher.publish
  linkPhase,             \* the serial device: "present", "absent" or "back" (present again, for good)
  isRunning,             \* ApplicationManager.isRunning
  app                    \* ApplicationManager: where initialize(), start() and stop() stand

busVars == <<transports, primaryTransportName, fallbackEnabled, messagesSent,
             lastActivity, connected, calls>>

serialVars == <<config, serial, lastCall>>

inboundVars == <<subscribedTopics, delivery>>

mqttVars == <<mqtt, mqttDelivery>>

routerVars == <<router, routing>>

dispatchVars == <<messageHandlers, messagesReceived, dispatch>>

registryVars == <<busConfig, removals, thrown, removed>>

fanoutVars == <<fanout>>

opsVars == <<opsIssued>>

serialIOVars == <<serialHandlers, written>>

facadeVars == <<publisher, facade>>

linkVars == <<linkPhase>>

appVars == <<isRunning, app>>

\* Everything outside the bus and its registry.
otherVars == <<serialVars, inboundVars, mqttVars, routerVars, dispatchVars, fanoutVars, opsVars, serialIOVars, facadeVars, linkVars, appVars>>

nonBusVars == <<serialVars, inboundVars, mqttVars, routerVars, dispatchVars, registryVars, fanoutVars, opsVars, serialIOVars, facadeVars, linkVars, appVars>>
nonSerialVars == <<busVars, inboundVars, mqttVars, routerVars, dispatchVars, registryVars, fanoutVars, opsVars, serialIOVars, facadeVars, linkVars, appVars>>
nonInboundVars == <<busVars, serialVars, mqttVars, routerVars, dispatchVars, registryVars, fanoutVars, opsVars, serialIOVars, facadeVars, linkVars, appVars>>
nonMqttVars == <<busVars, serialVars, inboundVars, routerVars, dispatchVars, registryVars, fanoutVars, opsVars, serialIOVars, facadeVars, linkVars, appVars>>
nonRouterVars == <<busVars, serialVars, inboundVars, mqttVars, dispatchVars, registryVars, fanoutVars, opsVars, serialIOVars, facadeVars, linkVars, appVars>>
nonDispatchVars == <<busVars, serialVars, inboundVars, mqttVars, routerVars, registryVars, fanoutVars, opsVars, serialIOVars, facadeVars, linkVars, appVars>>
nonRegistryVars == <<busVars, serialVars, inboundVars, mqttVars, routerVars, dispatchVars, fanoutVars, opsVars, serialIOVars, facadeVars, linkVars, appVars>>
nonFanoutVars == <<busVars, serialVars, inboundVars, mqttVars, routerVars, dispatchVars, registryVars, opsVars, serialIOVars, facadeVars, linkVars, appVars>>
nonOpsVars == <<busVars, serialVars, inboundVars, mqttVars, routerVars, dispatchVars, registryVars, fanoutVars, serialIOVars, facadeVars, linkVars, appVars>>
nonSerialIOVars == <<busVars, serialVars, inboundVars, mqttVars, routerVars, dispatchVars, registryVars, fanoutVars, opsVars, facadeVars, linkVars, appVars>>
nonFacadeVars == <<busVars, serialVars, inboundVars, mqttVars, routerVars, dispatchVars, registryVars, fanoutVars, opsVars, serialIOVars, linkVars, appVars>>
nonLinkVars == <<busVars, serialVars, inboundVars, mqttVars, routerVars, dispatchVars, registryVars, fanoutVars, opsVars, serialIOVars, facadeVars, appVars>>
nonSerialLinkVars == <<busVars, inboundVars, mqttVars, routerVars, dispatchVars, registryVars, fanoutVars, opsVars, serialIOVars, facadeVars, appVars>>
nonAppVars == <<busVars, serialVars, inboundVars, mqttVars, routerVars, dispatchVars, registryVars, fanoutVars, opsVars, serialIOVars, facadeVars, linkVars>>

vars == <<transports, primaryTransportName, fallbackEnabled, messagesSent,
          lastActivity, connected, calls, config, serial, lastCall,
          subscribedTopics, delivery,
          mqtt, mqttDelivery,
          router, routing,
          messageHandlers, messagesReceived, dispatch,
          busConfig, removals, thrown, removed,
          fanout,
          opsIssued,
          serialHandlers, written,
          publisher, facade,
          linkPhase,
          isRunning, app>>

(***************************************************************************)
(* Map<string, ITransport> as a sequence of entries in insertion order     *)
(***************************************************************************)
MapHas(m, n) == \E i \in 1..Len(m) : m[i].name = n

MapGet(m, n) ==
  IF MapHas(m, n) THEN m[CHOOSE i \in 1..Len(m) : m[i].name = n].obj ELSE NoObj

\* Map.set keeps the position of an existing key and appends a new one.
MapSet(m, n, o) ==
  IF MapHas(m, n)
    THEN [i \in 1..Len(m) |-> IF m[i].name = n THEN [name |-> n, obj |-> o] ELSE m[i]]
    ELSE Append(m, [name |-> n, obj |-> o])

MapDelete(m, n) == SelectSeq(m, LAMBDA e : e.name # n)

MapFirstKey(m) == IF Len(m) = 0 THEN NoName ELSE m[1].name

MapValues(m) == [i \in 1..Len(m) |-> m[i].obj]

\* Mutation of getConnectedTransports: the isConnected filter is dropped.
getConnectedTransportsUnfiltered == MapValues(transports)

\* MessageBus.getConnectedTransports
getConnectedTransports == SelectSeq(MapValues(transports), LAMBDA o : connected[o])

(***************************************************************************)
(* MessageBus.publish                                                      *)
(***************************************************************************)
Last(q) == q[Len(q)]
Range(q) == {q[i] : i \in 1..Len(q)}

\* A publish call: where it stands (pc), its locals (snapshot =
\* connectedTransports, primary = primaryTransport, idx = the position of the
\* fallback loop, ok = the awaited transport was connected when invoked), and
\* its history: the transports whose publish it invoked, those that accepted
\* the message and those that failed, and the error it threw.
IdleCall ==
  [pc |-> "idle", snapshot |-> <<>>, primary |-> NoObj, idx |-> 0, ok |-> FALSE,
   invoked |-> <<>>, accepted |-> <<>>, failed |-> <<>>, err |-> "none",
   primaryWasConnected |-> FALSE]

\* Mutation of NextFallback: the loop runs over the snapshot backwards.
NextFallbackBackwards(snap, prim, i) ==
  LET cand == {j \in 1..Len(snap) : snap[j] # prim /\ (i = 1 \/ j < i - 1)}
  IN IF cand = {} THEN 0 ELSE CHOOSE j \in cand : \A k \in cand : j >= k

\* Index of the next transport of the snapshot, from i on, that the fallback
\* loop invokes (it skips the primary object); 0 when the loop is exhausted.
NextFallback(snap, prim, i) ==
  LET cand == {j \in i..Len(snap) : snap[j] # prim}
  IN IF cand = {} THEN 0 ELSE CHOOSE j \in cand : \A k \in cand : j <= k

\* Mutation of FallbackFrom: config.fallbackEnabled is not consulted.
FallbackFromAlways(call, i) ==
  LET j == NextFallback(call.snapshot, call.primary, i)
  IN IF j = 0
       THEN [call EXCEPT !.pc = "rejected", !.err = "FailedAll",
                         !.idx = 0, !.ok = FALSE]
       ELSE [call EXCEPT !.pc = "awaitFallback", !.idx = j,
                         !.ok = connected[call.snapshot[j]],
                         !.invoked = Append(@, call.snapshot[j])]

\* The fallback part of publish, entered at index i of the snapshot: invoke
\* the next transport's publish and await it, or throw.
FallbackFrom(call, i) ==
  LET j == IF fallbackEnabled THEN NextFallback(call.snapshot, call.primary, i) ELSE 0
  IN IF j = 0
       THEN [call EXCEPT !.pc = "rejected", !.err = "FailedAll",
                         !.idx = 0, !.ok = FALSE]
       ELSE [call EXCEPT !.pc = "awaitFallback", !.idx = j,
                         !.ok = connected[call.snapshot[j]],
                         !.invoked = Append(@, call.snapshot[j])]

\* publish, from the call to its first await (or its throw).
PublishStart(c) ==
  /\ calls[c].pc = "idle"
  /\ \A d \in Calls : d < c => calls[d].pc # "idle"   \* calls are numbered as issued
  /\ UNCHANGED <<transports, primaryTransportName, fallbackEnabled, messagesSent,
                 lastActivity, connected>>
  /\ LET snap == getConnectedTransports
         prim == IF primaryTransportName # NoName
                   THEN MapGet(transports, primaryTransportName) ELSE NoObj
         call == [IdleCall EXCEPT !.snapshot = snap, !.primary = prim,
                                  !.primaryWasConnected = (prim # NoObj /\ connected[prim])]
     IN calls' = [calls EXCEPT ![c] =
          IF Len(snap) = 0
            THEN [call EXCEPT !.pc = "rejected", !.err = "NoConnected"]
          ELSE IF prim # NoObj /\ connected[prim]
            THEN [call EXCEPT !.pc = "awaitPrimary", !.ok = TRUE,
                              !.invoked = <<prim>>]
          ELSE FallbackFrom(call, 1)]

\* Mutation of PublishAccepted: only the primary branch counts the message.
PublishAcceptedFallbackUncounted(c) ==
  /\ calls[c].pc \in {"awaitPrimary", "awaitFallback"}
  /\ calls[c].ok
  /\ messagesSent' = IF calls[c].pc = "awaitPrimary" THEN messagesSent + 1 ELSE messagesSent
  /\ lastActivity' = "set"
  /\ calls' = [calls EXCEPT ![c] =
       [@ EXCEPT !.pc = "resolved", !.idx = 0, !.ok = FALSE,
                 !.accepted = Append(@, Last(calls[c].invoked))]]
  /\ UNCHANGED <<transports, primaryTransportName, fallbackEnabled, connected>>

\* The awaited transport.publish resolves: count the message and return.
PublishAccepted(c) ==
  /\ calls[c].pc \in {"awaitPrimary", "awaitFallback"}
  /\ calls[c].ok
  /\ messagesSent' = messagesSent + 1
  /\ lastActivity' = "set"
  /\ calls' = [calls EXCEPT ![c] =
       [@ EXCEPT !.pc = "resolved", !.idx = 0, !.ok = FALSE,
                 !.accepted = Append(@, Last(calls[c].invoked))]]
  /\ UNCHANGED <<transports, primaryTransportName, fallbackEnabled, connected>>

\* The awaited transport.publish rejects (the transport was not connected
\* when invoked, or the write failed): go on with the fallback loop.
PublishFailed(c) ==
  /\ calls[c].pc \in {"awaitPrimary", "awaitFallback"}
  /\ calls' = [calls EXCEPT ![c] =
       FallbackFrom([calls[c] EXCEPT !.failed = Append(@, Last(calls[c].invoked))],
                    IF calls[c].pc = "awaitPrimary" THEN 1 ELSE calls[c].idx + 1)]
  /\ UNCHANGED <<transports, primaryTransportName, fallbackEnabled, messagesSent,
                 lastActivity, connected>>

(***************************************************************************)
(* Registry operations and the transports' connectivity                    *)
(***************************************************************************)
\* transport instanceof MqttTransport
IsMqttTransport(o) == o \in {"mqtt-primary", "mqtt-msgbus"}

\* MessageBus.addTransport
addTransport(n, o) ==
  /\ transports' = MapSet(transports, n, o)
  /\ primaryTransportName' =
       IF primaryTransportName = NoName \/ (IsMqttTransport(o) /\ busConfig = "mqtt")
         THEN n ELSE primaryTransportName
  /\ UNCHANGED <<fallbackEnabled, messagesSent, lastActivity, connected, calls>>

\* ApplicationManager.initializeTransports registers every transport before
\* start() lets any traffic flow, in the order of the configuration and
\* skipping the disabled ones, each under the name it is constructed with.
initializeTransports(o) ==
  /\ \A c \in Calls : calls[c].pc = "idle"
  /\ \A i \in 1..Len(transports) : ConfigIndex(transports[i].obj) < ConfigIndex(o)
  /\ addTransport(o, o)

\* The Error of setTransport
NotFound == "Transport not found"

\* Mutation of setTransport: the registry is not consulted.
setTransportUnchecked(n) ==
  /\ primaryTransportName' = n
  /\ thrown' = "none"
  /\ UNCHANGED <<transports, fallbackEnabled, messagesSent, lastActivity, connected, calls>>

\* MessageBus.setTransport
setTransport(n) ==
  /\ IF MapHas(transports, n)
       THEN primaryTransportName' = n /\ thrown' = "none"
       ELSE thrown' = NotFound /\ UNCHANGED primaryTransportName
  /\ UNCHANGED <<transports, fallbackEnabled, messagesSent, lastActivity, connected, calls>>

\* ApplicationManager.initialize sets the configured primary once the
\* transports are added (an unknown name throws, which it catches).
initialize(n) ==
  /\ \A c \in Calls : calls[c].pc = "idle"
  /\ MapHas(transports, n)
  /\ primaryTransportName # n
  /\ setTransport(n)

\* Mutation of deleteTransport: the primary is not updated.
deleteTransportKeepingPrimary(n) ==
  /\ transports' = MapDelete(transports, n)
  /\ UNCHANGED primaryTransportName
  /\ removed' = IF primaryTransportName = n THEN n ELSE NoName

\* removeTransport after its await: delete the name and update the primary.
deleteTransport(n) ==
  /\ transports' = MapDelete(transports, n)
  /\ primaryTransportName' =
       IF primaryTransportName = n
         THEN MapFirstKey(MapDelete(transports, n)) ELSE primaryTransportName
  /\ removed' = IF primaryTransportName = n THEN n ELSE NoName

\* MessageBus.removeTransport, from the call to its await or, for a
\* transport that is not connected, to its end.
removeTransport(n) ==
  LET transport == MapGet(transports, n)
  IN /\ UNCHANGED <<fallbackEnabled, messagesSent, lastActivity, connected, calls>>
     /\ IF transport = NoObj
          THEN UNCHANGED <<transports, primaryTransportName, removals, removed>>
        ELSE IF connected[transport]
          THEN /\ BagCardinality(removals) < MaxRemovals
               /\ removals' = removals (+) SetToBag({[name |-> n, obj |-> transport]})
               /\ UNCHANGED <<transports, primaryTransportName, removed>>
        ELSE deleteTransport(n) /\ UNCHANGED removals

\* The awaited transport.disconnect() resolves (neither transport's
\* disconnect rejects) and removeTransport runs to its end.
Disconnected(r) ==
  /\ BagIn(r, removals)
  /\ removals' = removals (-) SetToBag({r})
  /\ connected' = [connected EXCEPT ![r.obj] = FALSE]
  /\ deleteTransport(r.name)
  /\ UNCHANGED <<fallbackEnabled, messagesSent, lastActivity, calls>>

\* A transport object connects or loses its link, registered or not.
LinkChanges(o) ==
  /\ connected' = [connected EXCEPT ![o] = ~@]
  /\ UNCHANGED <<transports, primaryTransportName, fallbackEnabled, messagesSent,
                 lastActivity, calls>>

\* MessageBusConfig.primaryTransport
BusConfigs == {"undefined", "mqtt", "serial"}

\* The state after the constructor as ApplicationManager calls it: without
\* primaryTransport.
RegistryConstructed ==
  /\ busConfig = "undefined"
  /\ removals = EmptyBag
  /\ thrown = "none"
  /\ removed = NoName

\* A transport's link comes up (connect() completes, or the broker session
\* reconnects) or goes down.
LinkUp(o) ==
  /\ MapHas(transports, o)
  /\ ~connected[o]
  /\ connected' = [connected EXCEPT ![o] = TRUE]
  /\ UNCHANGED <<transports, primaryTransportName, fallbackEnabled, messagesSent,
                 lastActivity, calls>>

LinkDown(o) ==
  /\ MapHas(transports, o)
  /\ connected[o]
  /\ connected' = [connected EXCEPT ![o] = FALSE]
  /\ UNCHANGED <<transports, primaryTransportName, fallbackEnabled, messagesSent,
                 lastActivity, calls>>

BusConstructed ==
  /\ transports = <<>>
  /\ primaryTransportName = NoName
  /\ fallbackEnabled \in BOOLEAN
  /\ messagesSent = 0
  /\ lastActivity = "undefined"
  /\ connected = [o \in Objs |-> FALSE]
  /\ calls = [c \in Calls |-> IdleCall]

(***************************************************************************)
(* MessageBus.subscribe, connectAll and disconnectAll                      *)
(***************************************************************************)
\* One call at a time is followed: the operation, the transports whose
\* method it invoked (in order), those of them whose promise rejects, and
\* where the call stands.
IdleFanOut == [op |-> "none", issued |-> <<>>, failing |-> {}, pc |-> "idle"]

FanOutConstructed == fanout = IdleFanOut

\* Mutation of IssueToEach: the promises are awaited one by one in the loop
\* without a catch, so the loop ends at the first rejection.
IssueUntilRejected(targets, failing) ==
  IF \E i \in 1..Len(targets) : targets[i] \in failing
    THEN SubSeq(targets, 1, CHOOSE i \in 1..Len(targets) :
                              /\ targets[i] \in failing
                              /\ \A j \in 1..(i - 1) : targets[j] \notin failing)
    ELSE targets

\* The for loop that pushes transport.method().catch(...) for each target:
\* every target's method is invoked, whichever promises reject later.
IssueToEach(targets, failing) == targets

\* The call starts: the synchronous loop up to await Promise.allSettled.
\* failing is the set of transports whose promise is going to reject.
FanOutStart(op, targets, failing) ==
  /\ fanout.pc # "awaiting"
  /\ fanout' = [op |-> op, issued |-> IssueToEach(targets, failing),
                failing |-> failing \cap Range(IssueToEach(targets, failing)),
                pc |-> "awaiting"]

\* MessageBus.subscribe, up to its await, or to its return when no
\* transport is connected
BusSubscribe(failing) ==
  /\ IF getConnectedTransports = <<>>
       THEN /\ fanout.pc # "awaiting"
            /\ fanout' = [op |-> "subscribe", issued |-> <<>>, failing |-> {},
                          pc |-> "resolved"]
       ELSE FanOutStart("subscribe", getConnectedTransports, failing)
  /\ UNCHANGED busVars

\* MessageBus.connectAll, up to its await
connectAll(failing) ==
  /\ FanOutStart("connectAll",
                 SelectSeq(MapValues(transports), LAMBDA o : ~connected[o]), failing)
  /\ UNCHANGED busVars

\* MessageBus.disconnectAll, up to its await
disconnectAll(failing) ==
  /\ FanOutStart("disconnectAll",
                 SelectSeq(MapValues(transports), LAMBDA o : connected[o]), failing)
  /\ UNCHANGED busVars

\* Mutation of Settle: Promise.all over promises without a catch.
SettleAll(failing) == IF failing = {} THEN "resolved" ELSE "rejected"

\* await Promise.allSettled over promises that each carry a .catch: the call
\* goes on whichever of them rejected.
Settle(failing) == "resolved"

\* Every pushed promise has settled (a rejection is caught by its .catch):
\* Promise.allSettled fulfils and the call returns.  A connect that resolved
\* has brought its link up, a disconnect that resolved has taken it down.
AllSettled ==
  /\ fanout.pc = "awaiting"
  /\ fanout' = [fanout EXCEPT !.pc = Settle(fanout.failing)]
  /\ connected' =
       [o \in Objs |->
          IF o \notin Range(fanout.issued) \ fanout.failing THEN connected[o]
          ELSE IF fanout.op = "connectAll" THEN TRUE
          ELSE IF fanout.op = "disconnectAll" THEN FALSE
          ELSE connected[o]]
  /\ UNCHANGED <<transports, primaryTransportName, fallbackEnabled, messagesSent,
                 lastActivity, calls>>

\* MessageBus.getStatus: a query
getStatus ==
  /\ UNCHANGED busVars
  /\ UNCHANGED <<messageHandlers, messagesReceived, dispatch>>

(***************************************************************************)
(* SerialTransport: configuration                                          *)
(***************************************************************************)
DefaultReconnectDelay == 2000
DefaultMaxReconnectAttempts == -1
DefaultMultiplierHalves == 3        \* reconnectBackoffMultiplier 1.5, in halves
DefaultMaxReconnectDelay == 30000

\* Delays are held in quarter milliseconds, which keeps x 1.5 exact up to the cap.
DelayScale == 2 * 2
Ms(x) == x * DelayScale

\* The constructor's defaults, which ApplicationManager leaves in place.
\* ctorThrows: new SerialPort(...) throws synchronously (an invalid path or
\* baud rate in the configuration).
DefaultConfig ==
  [autoReconnect |-> TRUE,
   reconnectDelay |-> DefaultReconnectDelay,
   maxReconnectAttempts |-> DefaultMaxReconnectAttempts,
   multiplierHalves |-> DefaultMultiplierHalves,
   maxReconnectDelay |-> DefaultMaxReconnectDelay,
   ctorThrows |-> FALSE]

\* Configurations a caller can pass: the reconnection switches in every
\* combination with the default backoff, and two other backoffs with the
\* default switches (an initial delay above the cap, a multiplier of 0.5).
LongReconnectDelay == 40000
Configs ==
  {[DefaultConfig EXCEPT !.autoReconnect = a, !.maxReconnectAttempts = m, !.ctorThrows = t] :
     a \in BOOLEAN, m \in {-1, 0, 2}, t \in BOOLEAN}
  \cup {[DefaultConfig EXCEPT !.reconnectDelay = LongReconnectDelay],
        [DefaultConfig EXCEPT !.multiplierHalves = 1]}

\* JavaScript's  x || d  on numbers: 0 is falsy.
OrDefault(x, d) == IF x = 0 THEN d ELSE x

InitialDelay == Ms(OrDefault(config.reconnectDelay, DefaultReconnectDelay))

\* The backoff without its cap.
NextDelayUncapped(cur) ==
  (cur * OrDefault(config.multiplierHalves, DefaultMultiplierHalves)) \div 2

\* Math.min(currentReconnectDelay * multiplier, maxDelay)
NextDelay(cur) ==
  LET m == OrDefault(config.multiplierHalves, DefaultMultiplierHalves)
      maxDelay == Ms(OrDefault(config.maxReconnectDelay, DefaultMaxReconnectDelay))
  IN IF cur * m >= maxDelay * 2 THEN maxDelay ELSE (cur * m) \div 2

(***************************************************************************)
(* SerialTransport: state                                                  *)
(***************************************************************************)
\* A SerialPort object: st is "opening", "open" or "closing" while the object
\* can still raise events, "closed" once it cannot, and "null" for
\* this.serialPort === null.  settled: the promise of the attemptConnection
\* that created it is resolved or rejected.  origin: who awaits that promise,
\* "connect" (a caller of connect()) or "timer" (the timer callback).  cb: what
\* follows the close in progress, "none" (attemptConnection's close()),
\* "disconnect" (disconnect() resolves) or "force" (forceReconnect goes on to
\* connect()).
NullPort == [st |-> "null", settled |-> FALSE, origin |-> "none", cb |-> "none"]
ClosedPort == [st |-> "closed", settled |-> TRUE, origin |-> "none", cb |-> "none"]
NewPort(origin) == [st |-> "opening", settled |-> FALSE, origin |-> origin, cb |-> "none"]

LiveStates == {"opening", "open", "closing"}

\* The state after the constructor.
SerialConstructed ==
  [isConnectedState |-> FALSE,
   isReconnecting |-> FALSE,
   shouldAutoReconnect |-> TRUE,
   reconnectAttempts |-> 0,
   currentReconnectDelay |-> InitialDelay,
   reconnectTimer |-> "null",     \* "pending", or "null" (null or an expired handle)
   timerDelay |-> 0,              \* the delay given to setTimeout for the pending timer
   strayTimers |-> 0,             \* pending timers overwritten in reconnectTimer
   serialPort |-> NullPort,       \* the port object this.serialPort refers to
   oldPorts |-> EmptyBag]         \* superseded port objects that can still raise events

\* SerialPort.isOpen of this.serialPort
PortIsOpen(s) == s.serialPort.st = "open"

\* SerialTransport.isConnected
isConnected(s) == s.isConnectedState /\ PortIsOpen(s)

TimerPending(s) == s.reconnectTimer = "pending" \/ s.strayTimers > 0

\* Reconnecting: not connected and waiting for the retry timer
Reconnecting(s) == ~isConnected(s) /\ s.reconnectTimer = "pending"

\* The port objects that can still raise events: the current one and the old ones.
LivePorts(s) ==
  (IF s.serialPort.st \in LiveStates THEN {<<"current", s.serialPort>>} ELSE {})
    \cup {<<"old", r>> : r \in BagToSet(s.oldPorts)}

NumLivePorts(s) ==
  (IF s.serialPort.st \in LiveStates THEN 1 ELSE 0) + BagCardinality(s.oldPorts)

AttemptInFlight(s) == \E ref \in LivePorts(s) : ref[2].st = "opening"

\* The port object ref goes on as r.
PortBecomes(s, ref, r) ==
  IF ref[1] = "current"
    THEN [s EXCEPT !.serialPort = r]
    ELSE [s EXCEPT !.oldPorts = (@ (-) SetToBag({ref[2]})) (+) SetToBag({r})]

\* The port object ref is closed for good and raises no further event.
Release(s, ref) ==
  IF ref[1] = "current"
    THEN [s EXCEPT !.serialPort = ClosedPort]
    ELSE [s EXCEPT !.oldPorts = @ (-) SetToBag({ref[2]})]

clearReconnectTimer(s) ==
  IF s.reconnectTimer # "null"
    THEN [s EXCEPT !.reconnectTimer = "null", !.timerDelay = 0]
    ELSE s

\* handleConnectionLoss up to and including setTimeout
handleConnectionLoss(s) ==
  LET maxAttempts == OrDefault(config.maxReconnectAttempts, DefaultMaxReconnectAttempts)
  IN IF ~config.autoReconnect \/ ~s.shouldAutoReconnect THEN s
     ELSE IF s.isReconnecting THEN s
     ELSE IF maxAttempts > 0 /\ s.reconnectAttempts >= maxAttempts THEN s
     ELSE [s EXCEPT !.isReconnecting = TRUE,
                    !.reconnectAttempts = @ + 1,
                    !.strayTimers = IF s.reconnectTimer = "pending" THEN @ + 1 ELSE @,
                    !.reconnectTimer = "pending",
                    !.timerDelay = s.currentReconnectDelay]

\* The catch block of the timer callback: back off and try again.
retryFailed(s) ==
  handleConnectionLoss([s EXCEPT !.currentReconnectDelay = NextDelay(@),
                                 !.isReconnecting = FALSE])

\* attemptConnection up to the return of its promise; origin tells who awaits
\* the promise.  An open port is closed first; the port object replaced in
\* this.serialPort lives on if it can still raise events.
attemptConnection(s, origin) ==
  LET closing == IF PortIsOpen(s) THEN [s EXCEPT !.serialPort.st = "closing"] ELSE s
  IN IF config.ctorThrows
       THEN LET lost == handleConnectionLoss(closing)
            IN IF origin = "timer" THEN retryFailed(lost) ELSE lost
       ELSE [closing EXCEPT
               !.serialPort = NewPort(origin),
               !.oldPorts = IF closing.serialPort.st \in LiveStates
                              THEN @ (+) SetToBag({closing.serialPort}) ELSE @]

\* SerialTransport.connect
connect(s) ==
  attemptConnection([clearReconnectTimer(s) EXCEPT !.shouldAutoReconnect = TRUE], "connect")

\* SerialTransport.disconnect up to its await; cb tells what follows the close.
disconnect(s, cb) ==
  LET t == [clearReconnectTimer(s) EXCEPT !.shouldAutoReconnect = FALSE]
  IN IF PortIsOpen(t)
       THEN [t EXCEPT !.serialPort.st = "closing", !.serialPort.cb = cb]
       ELSE [t EXCEPT !.isConnectedState = FALSE]

\* The attempts followed: a single chain of retries (no stray timer, no
\* superseded port) is followed up to MaxRetries, any other up to MaxAttemptsCap.
AttemptsCap(s) ==
  IF s.strayTimers = 0 /\ s.oldPorts = EmptyBag THEN MaxRetries ELSE MaxAttemptsCap

\* The state stays within the bounds of the model.
WithinBounds(s) ==
  /\ s.reconnectAttempts <= AttemptsCap(s)
  /\ s.strayTimers <= MaxStrayTimers
  /\ NumLivePorts(s) <= MaxPorts

(***************************************************************************)
(* SerialTransport: the callers' operations                                *)
(***************************************************************************)
Connect ==
  /\ serial' = connect(serial)
  /\ WithinBounds(serial')
  /\ lastCall' = "connect"
  /\ UNCHANGED config

Disconnect ==
  /\ serial' = disconnect(serial, "disconnect")
  /\ lastCall' = IF Reconnecting(serial) THEN "disconnectWhileReconnecting" ELSE "disconnect"
  /\ UNCHANGED config

\* forceReconnect up to its await of disconnect(), or through connect()
ForceReconnect ==
  /\ LET s == [clearReconnectTimer(serial) EXCEPT !.isReconnecting = FALSE]
     IN serial' = IF PortIsOpen(s) THEN disconnect(s, "force") ELSE connect(s)
  /\ WithinBounds(serial')
  /\ lastCall' = "forceReconnect"
  /\ UNCHANGED config

EnableAutoReconnect ==
  /\ ~serial.shouldAutoReconnect
  /\ serial' = [serial EXCEPT !.shouldAutoReconnect = TRUE]
  /\ lastCall' = "enableAutoReconnect"
  /\ UNCHANGED config

DisableAutoReconnect ==
  /\ serial' = [clearReconnectTimer(serial) EXCEPT !.shouldAutoReconnect = FALSE]
  /\ UNCHANGED <<config, lastCall>>

ResetReconnectAttempts ==
  /\ serial' = [serial EXCEPT !.reconnectAttempts = 0,
                              !.currentReconnectDelay = InitialDelay]
  /\ UNCHANGED <<config, lastCall>>

(***************************************************************************)
(* SerialTransport: timers and port events                                 *)
(***************************************************************************)
\* The timer that reconnectTimer refers to expires.
TimerFires ==
  /\ serial.reconnectTimer = "pending"
  /\ serial' = attemptConnection([serial EXCEPT !.reconnectTimer = "null", !.timerDelay = 0], "timer")
  /\ WithinBounds(serial')
  /\ UNCHANGED <<config, lastCall>>

\* A pending timer that reconnectTimer no longer refers to expires.
StrayTimerFires ==
  /\ serial.strayTimers > 0
  /\ serial' = attemptConnection([serial EXCEPT !.strayTimers = @ - 1], "timer")
  /\ WithinBounds(serial')
  /\ UNCHANGED <<config, lastCall>>

\* The "open" handler.
onOpen(s) ==
  [s EXCEPT !.isConnectedState = TRUE,
            !.isReconnecting = FALSE,
            !.reconnectAttempts = 0,
            !.currentReconnectDelay = InitialDelay]

\* The "error" handler; awaited tells whether the timer callback is awaiting
\* this port's promise, in which case its catch block runs next.
onError(s, awaited) ==
  LET t == [s EXCEPT !.isConnectedState = FALSE]
      u == IF ~t.isReconnecting THEN handleConnectionLoss(t) ELSE t
  IN IF awaited THEN retryFailed(u) ELSE u

\* The "close" handler.
onClose(s) ==
  LET t == [s EXCEPT !.isConnectedState = FALSE]
  IN IF s.isConnectedState THEN handleConnectionLoss(t) ELSE t

Awaited(r) == r.origin = "timer" /\ ~r.settled

\* A port opens.
PortOpened ==
  /\ \E ref \in LivePorts(serial) :
       /\ ref[2].st = "opening"
       /\ serial' = onOpen(PortBecomes(serial, ref,
                             [ref[2] EXCEPT !.st = "open", !.settled = TRUE]))
  /\ UNCHANGED <<config, lastCall>>

\* A port fails to open: it emits "error".
PortOpenFailed ==
  /\ \E ref \in LivePorts(serial) :
       /\ ref[2].st = "opening"
       /\ serial' = onError(Release(serial, ref), Awaited(ref[2]))
  /\ WithinBounds(serial')
  /\ UNCHANGED <<config, lastCall>>

\* An open port emits "error" (a failed read or write) and stays open.
PortError ==
  /\ \E ref \in LivePorts(serial) :
       /\ ref[2].st = "open"
       /\ serial' = onError(serial, FALSE)
  /\ WithinBounds(serial')
  /\ UNCHANGED <<config, lastCall>>

\* An open port is lost (the device is unplugged): it emits "close".
PortLost ==
  /\ \E ref \in LivePorts(serial) :
       /\ ref[2].st = "open"
       /\ serial' = onClose(Release(serial, ref))
  /\ WithinBounds(serial')
  /\ UNCHANGED <<config, lastCall>>

\* A close() completes: the port emits "close", then close's callback runs
\* (disconnect's sets isConnectedState and resolves; forceReconnect, awaiting
\* it, goes on to connect()).
PortClosed ==
  /\ \E ref \in LivePorts(serial) :
       /\ ref[2].st = "closing"
       /\ LET s == onClose(Release(serial, ref))
              t == IF ref[2].cb = "none" THEN s ELSE [s EXCEPT !.isConnectedState = FALSE]
          IN serial' = IF ref[2].cb = "force" THEN connect(t) ELSE t
  /\ WithinBounds(serial')
  /\ UNCHANGED <<config, lastCall>>

(***************************************************************************)
(* The serial device                                                       *)
(***************************************************************************)
\* The device is there when the program starts.
LinkConstructed == linkPhase = "present"

\* new SerialPort on the path of the device opens if the device is there.
Openable == linkPhase # "absent"

\* The device is unplugged.
DeviceRemoved ==
  /\ linkPhase = "present"
  /\ linkPhase' = "absent"

\* The device is plugged in and stays.
DeviceBack ==
  /\ linkPhase = "absent"
  /\ linkPhase' = "back"

(***************************************************************************)
(* ApplicationManager                                                      *)
(***************************************************************************)
\* Where the application stands: constructed, initialized, starting,
\* statusPublishing, running, stopping or stopped; the transports whose
\* connect() start() awaits and those whose connect() failed; the transports
\* whose disconnect() stop() awaits.  primary is the transport that was
\* registered under the configured primary's name when start() was called.
IdleApp == [phase |-> "constructed", primary |-> NoObj, awaiting |-> {}, failed |-> {},
            stopAwaiting |-> {}]

\* The state after ApplicationManager's constructor.
AppConstructed ==
  /\ isRunning = FALSE
  /\ app = IdleApp

(***************************************************************************)
(* Sets of message handlers (MessageBus, SerialTransport, MqttTransport)   *)
(***************************************************************************)
\* Set.add: a value already in the set keeps its place.
SetAdd(set, v) ==
  IF \E i \in 1..Len(set) : set[i] = v THEN set ELSE Append(set, v)

\* Set.delete
SetDelete(set, v) == SelectSeq(set, LAMBDA w : w # v)

\* A forEach whose try block is around the whole loop: it ends at the
\* first handler that throws.
RECURSIVE ForEachHandlerUntilThrow(_, _, _, _)
ForEachHandlerUntilThrow(handlers, throwing, topic, payload) ==
  IF handlers = << >> THEN << >>
  ELSE LET threw == Head(handlers) \in throwing
           call == [handler |-> Head(handlers), topic |-> topic, payload |-> payload,
                    threw |-> threw]
       IN IF threw THEN <<call>>
          ELSE <<call>> \o ForEachHandlerUntilThrow(Tail(handlers), throwing, topic, payload)

\* messageHandlers.forEach with the try block around each call: the
\* calls made, in order; throwing is the set of handlers that throw.
RECURSIVE ForEachHandler(_, _, _, _)
ForEachHandler(handlers, throwing, topic, payload) ==
  IF handlers = << >> THEN << >>
  ELSE <<[handler |-> Head(handlers), topic |-> topic, payload |-> payload,
          threw |-> Head(handlers) \in throwing]>>
         \o ForEachHandler(Tail(handlers), throwing, topic, payload)

(***************************************************************************)
(* SerialTransport: inbound lines                                          *)
(***************************************************************************)
\* Strings are sequences of one-character strings.
Slash == "/"
Colon == ":"
Plus == "+"
Hash == "#"

\* Topics of inbound lines.
Topics ==
  {<<"s", "/", "k", "/", "t">>,             \* s/k/t
   <<"s", "/", "k", "/", "u", "/", "t">>,   \* s/k/u/t
   <<"s", "/", "k">>,                       \* s/k
   <<"x", "/", "k", "/", "t">>,             \* x/k/t
   <<"s">>}                                 \* s

\* Topics and patterns passed to subscribe.
Patterns ==
  {<<"s", "/", "+", "/", "t">>,             \* s/+/t
   <<"s", "/", "#">>,                       \* s/#
   <<"+", "/", "k", "/", "#">>,             \* +/k/#
   <<"s", "/", "k", "/", "t">>,             \* s/k/t
   <<"x", "/", "+">>}                       \* x/+

Payloads == {<< >>, <<"p">>, <<"p", ":", "q">>}

\* The lines the parser hands over: "topic:payload", and lines with no colon.
Lines ==
  {t \o <<Colon>> \o pl : t \in Topics, pl \in Payloads} \cup {<<"s", "/", "k">>, << >>}

\* Mutation of IndexOf: String.lastIndexOf
LastIndexOf(str, ch) ==
  IF \E i \in 1..Len(str) : str[i] = ch
    THEN (CHOOSE i \in 1..Len(str) : str[i] = ch /\ \A j \in (i + 1)..Len(str) : str[j] # ch) - 1
    ELSE -1

\* String.indexOf, counting from 0; -1 if absent
IndexOf(str, ch) ==
  IF \E i \in 1..Len(str) : str[i] = ch
    THEN (CHOOSE i \in 1..Len(str) : str[i] = ch /\ \A j \in 1..(i - 1) : str[j] # ch) - 1
    ELSE -1

\* String.includes
Includes(str, ch) == \E i \in 1..Len(str) : str[i] = ch

\* String.substring(from) and String.substring(0, to), indices from 0
SubstringFrom(str, from) == SubSeq(str, from + 1, Len(str))
SubstringTo(str, to) == SubSeq(str, 1, to)

\* new RegExp("^" + pattern + "$").test(str) for the pattern that
\* isTopicMatched builds: "+" has become [^/]+ and "#" has become .* ; every
\* other character of these topics stands for itself.
RECURSIVE RegexTest(_, _)
RegexTest(pat, str) ==
  IF pat = << >> THEN str = << >>
  ELSE IF Head(pat) = Plus
    THEN \E k \in 1..Len(str) :
           /\ \A i \in 1..k : str[i] # Slash
           /\ RegexTest(Tail(pat), SubstringFrom(str, k))
  ELSE IF Head(pat) = Hash
    THEN \E k \in 0..Len(str) : RegexTest(Tail(pat), SubstringFrom(str, k))
  ELSE str # << >> /\ Head(str) = Head(pat) /\ RegexTest(Tail(pat), Tail(str))

\* A subscription that treats every pattern as a regular expression.
TopicMatchesAlwaysRegex(subscribedTopic, incomingTopic) ==
  RegexTest(subscribedTopic, incomingTopic)

\* One round of the loop of isTopicMatched
TopicMatches(subscribedTopic, incomingTopic) ==
  IF Includes(subscribedTopic, Plus)
    THEN RegexTest(subscribedTopic, incomingTopic)
    ELSE subscribedTopic = incomingTopic

\* SerialTransport.isTopicMatched
isTopicMatched(incomingTopic) ==
  \E subscribedTopic \in subscribedTopics : TopicMatches(subscribedTopic, incomingTopic)

NoDelivery == [line |-> << >>, parsed |-> FALSE, topic |-> << >>, payload |-> << >>,
               delivered |-> FALSE, calls |-> << >>, afterDropped |-> FALSE]

\* The state after the constructor.
InboundConstructed ==
  /\ subscribedTopics = {}
  /\ delivery = NoDelivery

\* SerialTransport.subscribe: one topic or an array of topics
subscribe(topics) ==
  /\ subscribedTopics' = subscribedTopics \cup topics
  /\ UNCHANGED delivery

\* SerialTransport.handleIncomingMessage: delivered tells whether the
\* forEach over the handlers runs, calls the calls it makes; throwing is the
\* set of handlers that throw; afterDropped records that the line before
\* this one had no colon.
handleIncomingMessage(data, throwing) ==
  LET colonIndex == IndexOf(data, Colon)
      afterDropped == ~delivery.parsed /\ delivery.line # << >>
  IN /\ delivery' =
          IF colonIndex = -1
            THEN [NoDelivery EXCEPT !.line = data, !.afterDropped = afterDropped]
            ELSE LET topic == SubstringTo(data, colonIndex)
                     payload == SubstringFrom(data, colonIndex + 1)
                     isSubscribed == \/ subscribedTopics = {}
                                     \/ topic \in subscribedTopics
                                     \/ isTopicMatched(topic)
                 IN [line |-> data, parsed |-> TRUE, topic |-> topic,
                     payload |-> payload, delivered |-> isSubscribed,
                     calls |-> IF isSubscribed
                                 THEN ForEachHandler(serialHandlers, throwing, topic, payload)
                                 ELSE << >>,
                     afterDropped |-> afterDropped]
     /\ UNCHANGED subscribedTopics

(***************************************************************************)
(* SerialTransport: handlers and publish                                   *)
(***************************************************************************)
\* The handlers given to onMessage: the forwarder addTransport registers,
\* and one more.
SerialHandlers == {"busForwarder", "observer"}

\* The publish call followed: its arguments, the frame it writes and how it ends.
NoWrite == [outcome |-> "none", message |-> << >>, topic |-> << >>, payload |-> << >>]

\* The state after the constructor.
SerialIOConstructed ==
  /\ serialHandlers = << >>
  /\ written = NoWrite

\* SerialTransport.onMessage
onMessage(handler) ==
  /\ serialHandlers' = SetAdd(serialHandlers, handler)
  /\ UNCHANGED written

\* SerialTransport.removeMessageHandler
removeMessageHandler(handler) ==
  /\ serialHandlers' = SetDelete(serialHandlers, handler)
  /\ UNCHANGED written

\* `${topic}:${payloadString}\n`
Frame(topic, payloadString) == topic \o <<Colon>> \o payloadString \o <<"\n">>

\* Mutation of publish: the connection is not checked.
publishUnchecked(topic, payloadString) ==
  /\ written.outcome # "writing"
  /\ written' = [outcome |-> "writing", message |-> Frame(topic, payloadString),
                 topic |-> topic, payload |-> payloadString]
  /\ UNCHANGED <<serial, serialHandlers>>

\* SerialTransport.publish with a string payload, up to the write: it
\* throws if the transport is not connected, and writes the frame otherwise.
publish(topic, payloadString) ==
  /\ written.outcome # "writing"
  /\ written' = IF ~isConnected(serial)
                  THEN [outcome |-> "NotConnected", message |-> << >>,
                        topic |-> topic, payload |-> payloadString]
                  ELSE [outcome |-> "writing", message |-> Frame(topic, payloadString),
                        topic |-> topic, payload |-> payloadString]
  /\ UNCHANGED <<serial, serialHandlers>>

\* The callback of serialPort.write: publish resolves, or rejects with the
\* error of the write.
WriteCompleted(error) ==
  /\ written.outcome = "writing"
  /\ written' = [written EXCEPT !.outcome = IF error THEN "rejected" ELSE "resolved"]
  /\ UNCHANGED <<serial, serialHandlers>>

\* String.trim: white space and line terminators removed at both ends
WhiteSpace == {" ", "\t", "\r", "\n"}

RECURSIVE TrimStart(_)
TrimStart(str) ==
  IF str # << >> /\ Head(str) \in WhiteSpace THEN TrimStart(Tail(str)) ELSE str

RECURSIVE TrimEnd(_)
TrimEnd(str) ==
  IF str # << >> /\ str[Len(str)] \in WhiteSpace
    THEN TrimEnd(SubSeq(str, 1, Len(str) - 1))
    ELSE str

Trim(str) == TrimEnd(TrimStart(str))

\* The parser of an open port hands over a line: the "data" handler of
\* attemptConnection.
LineArrives(data, throwing) ==
  /\ \E ref \in LivePorts(serial) : ref[2].st = "open"
  /\ handleIncomingMessage(Trim(data), throwing)
  /\ UNCHANGED <<serial, serialHandlers, written>>

(***************************************************************************)
(* MqttTransport and MqttClient                                            *)
(***************************************************************************)
\* Handlers registered with MqttTransport.onMessage: the forwarder that
\* MessageBus.addTransport registers, and two more.
Handlers == {"busForwarder", "handlerA", "handlerB"}

\* Payloads arrive as Buffers: sequences of bytes.
Bytes == {112, 113}
Buffers == {<< >>, <<112>>, <<112, 113>>}
MqttTopics == {"unimix/cmd", "unimix/status"}

\* Buffer.toString(): UTF-8 decoding, here of the bytes of "p" and "q"
CharOf(byte) == IF byte = 112 THEN "p" ELSE "q"
BufferToString(payload) == [i \in 1..Len(payload) |-> CharOf(payload[i])]

\* this.client: null, or the mqtt.js client with its connected flag and
\* whether a "message" listener is attached to it.
NullClient == [exists |-> FALSE, connected |-> FALSE, messageListener |-> FALSE]
NewClient == [exists |-> TRUE, connected |-> FALSE, messageListener |-> FALSE]

\* MqttClient.onMessage
MqttClient_onMessage(m) ==
  IF m.client.exists THEN [m EXCEPT !.client.messageListener = TRUE] ELSE m

\* The state after MqttTransport's constructor: a new MqttClient, and the
\* forwarding callback handed to MqttClient.onMessage.
MqttTransportConstructed ==
  /\ mqtt = MqttClient_onMessage([client |-> NullClient, messageHandlers |-> {}])
  /\ mqttDelivery = [topic |-> "none", payload |-> << >>, invoked |-> {}]

\* MqttTransport.onMessage
MqttOnMessage(handler) ==
  /\ mqtt' = [mqtt EXCEPT !.messageHandlers = @ \cup {handler}]
  /\ UNCHANGED mqttDelivery

\* MqttTransport.removeMessageHandler
MqttRemoveMessageHandler(handler) ==
  /\ handler \in mqtt.messageHandlers
  /\ mqtt' = [mqtt EXCEPT !.messageHandlers = @ \ {handler}]
  /\ UNCHANGED mqttDelivery

\* MqttTransport.connect, MqttClient.connect up to its await: mqtt.connect
\* returns a new client, to which the listeners of lines 34-54 are attached.
MqttConnect ==
  /\ mqtt' = [mqtt EXCEPT !.client = NewClient]
  /\ UNCHANGED mqttDelivery

\* The broker acknowledges the connection (also after a reconnect).
BrokerConnected ==
  /\ mqtt.client.exists
  /\ ~mqtt.client.connected
  /\ mqtt' = [mqtt EXCEPT !.client.connected = TRUE]
  /\ UNCHANGED mqttDelivery

\* The connection to the broker is lost, or MqttTransport.disconnect ends it.
BrokerDisconnected ==
  /\ mqtt.client.connected
  /\ mqtt' = [mqtt EXCEPT !.client.connected = FALSE]
  /\ UNCHANGED mqttDelivery

\* The client emits "message": the callback of the constructor, if it is
\* attached, forwards the message to every registered handler.
BrokerMessage(topic, payload) ==
  /\ mqtt.client.connected
  /\ mqttDelivery' =
       [topic |-> topic, payload |-> payload,
        invoked |-> IF mqtt.client.messageListener
                      THEN {<<handler, topic, BufferToString(payload)>> :
                              handler \in mqtt.messageHandlers}
                      ELSE {}]
  /\ UNCHANGED mqtt

(***************************************************************************)
(* MessageRouter                                                           *)
(***************************************************************************)
\* MessageType, and one string that is no MessageType
AUDIO_STATUS_REQUEST == "audio.status.request"
AUDIO_MIX_UPDATE == "audio.mix.update"
OtherType == "custom.type"
MessageTypes == {AUDIO_STATUS_REQUEST, AUDIO_MIX_UPDATE, OtherType}

HandlerObjs == {"AudioStatusRequestHandler", "AudioMixUpdateHandler", "customHandler"}
NoHandler == "undefined"

\* What JSON.parse makes of a payload: it throws a SyntaxError, or returns
\* null, a number, or an object whose messageType is absent ("undefined"),
\* empty or a string.
Thrown == [kind |-> "SyntaxError", messageType |-> "undefined", messageId |-> "undefined"]
JsonNull == [kind |-> "null", messageType |-> "undefined", messageId |-> "undefined"]
JsonNumber == [kind |-> "number", messageType |-> "undefined", messageId |-> "undefined"]
JsonObject(type, id) == [kind |-> "object", messageType |-> type, messageId |-> id]

RouterPayloads ==
  {"not json", "null", "42", "{}", "{\"messageType\":\"\"}",
   "{\"messageType\":\"audio.status.request\",\"messageId\":\"m1\"}",
   "{\"messageType\":\"audio.mix.update\",\"messageId\":\"m2\"}",
   "{\"messageType\":\"custom.type\",\"messageId\":\"m3\"}"}

\* JSON.parse
JsonParse(messagePayload) ==
  CASE messagePayload = "not json" -> Thrown
    [] messagePayload = "null" -> JsonNull
    [] messagePayload = "42" -> JsonNumber
    [] messagePayload = "{}" -> JsonObject("undefined", "undefined")
    [] messagePayload = "{\"messageType\":\"\"}" -> JsonObject("", "undefined")
    [] messagePayload = "{\"messageType\":\"audio.status.request\",\"messageId\":\"m1\"}"
         -> JsonObject(AUDIO_STATUS_REQUEST, "m1")
    [] messagePayload = "{\"messageType\":\"audio.mix.update\",\"messageId\":\"m2\"}"
         -> JsonObject(AUDIO_MIX_UPDATE, "m2")
    [] messagePayload = "{\"messageType\":\"custom.type\",\"messageId\":\"m3\"}"
         -> JsonObject(OtherType, "m3")

\* A lookup that falls back to a default handler.
HandlerForOrDefault(messageType) ==
  IF messageType \in MessageTypes /\ router[messageType] # NoHandler
    THEN router[messageType]
    ELSE "AudioStatusRequestHandler"

\* this.handlers.get(message.messageType)
HandlerFor(messageType) ==
  IF messageType \in MessageTypes THEN router[messageType] ELSE NoHandler

\* A routeMessage without its catch block: a failure rejects its promise.
SettledUncaught(outcome) ==
  IF outcome \in {"threw", "rejected", "SyntaxError", "TypeError"} THEN "rejected" ELSE "resolved"

\* How routeMessage settles: the catch block logs every failure, and the
\* promise resolves.
Settled(outcome) == "resolved"

\* The context argument of handler.handle when none is given
UndefinedContext == [defined |-> FALSE, originalTopic |-> "undefined", messageId |-> "undefined"]

IdleRouting == [pc |-> "idle", payload |-> "none", invoked |-> << >>,
                context |-> UndefinedContext, outcome |-> "none", published |-> 0]

\* The state after the constructor and initializeHandlers.
RouterConstructed ==
  /\ router = [type \in MessageTypes |->
                 CASE type = AUDIO_STATUS_REQUEST -> "AudioStatusRequestHandler"
                   [] type = AUDIO_MIX_UPDATE -> "AudioMixUpdateHandler"
                   [] OTHER -> NoHandler]
  /\ routing = IdleRouting

\* Mutation of registerHandler: a type that has a handler keeps it.
registerHandlerIfAbsent(messageType, handler) ==
  /\ router' = IF router[messageType] = NoHandler
                 THEN [router EXCEPT ![messageType] = handler]
                 ELSE router
  /\ UNCHANGED routing

\* MessageRouter.registerHandler
registerHandler(messageType, handler) ==
  /\ router' = [router EXCEPT ![messageType] = handler]
  /\ UNCHANGED routing

\* MessageRouter.getSupportedMessageTypes returns the keys of the map.
getSupportedMessageTypes == UNCHANGED <<router, routing>>

\* MessageRouter.isMessageTypeSupported returns handlers.has(messageType).
isMessageTypeSupported(messageType) == UNCHANGED <<router, routing>>

\* MessageRouter.routeMessage up to its await, or to its end.  sync tells
\* what handler.handle does when it is called: it throws, or it returns a
\* promise that is still pending.  The handler is given the message and the
\* third argument of routeMessage.
routeMessage(messagePayload, topic, context, sync) ==
  /\ routing.pc # "awaitHandler"
  /\ LET message == JsonParse(messagePayload)
         call == [IdleRouting EXCEPT !.payload = messagePayload]
     IN routing' =
          IF message.kind = "SyntaxError"
            THEN [call EXCEPT !.pc = Settled("SyntaxError"), !.outcome = "SyntaxError"]
          ELSE IF message.kind = "null"
            THEN [call EXCEPT !.pc = Settled("TypeError"), !.outcome = "TypeError"]
          ELSE IF message.messageType \in {"undefined", ""}
            THEN [call EXCEPT !.pc = Settled("none")]
          ELSE IF HandlerFor(message.messageType) = NoHandler
            THEN [call EXCEPT !.pc = Settled("none")]
          ELSE LET handler == HandlerFor(message.messageType)
                   invoked == <<<<handler, message>>>>
               IN IF sync = "throws"
                    THEN [call EXCEPT !.pc = Settled("threw"), !.outcome = "threw",
                                      !.invoked = invoked, !.context = context]
                    ELSE [call EXCEPT !.pc = "awaitHandler", !.invoked = invoked,
                                      !.context = context]
  /\ UNCHANGED router

\* The handler ApplicationManager.setupMessageRouting registers on the bus:
\* it calls routeMessage(payload, topic), with no third argument.
RouteFromBus(topic, payload, sync) ==
  routeMessage(payload, topic, UndefinedContext, sync)

\* The handler being awaited publishes through MessagePublisher.
HandlerPublishes ==
  /\ routing.pc = "awaitHandler"
  /\ routing.published = 0
  /\ routing' = [routing EXCEPT !.published = 1]
  /\ UNCHANGED router

\* The promise of handler.handle settles, and routeMessage with it.
HandlerSettles(outcome) ==
  /\ routing.pc = "awaitHandler"
  /\ routing' = [routing EXCEPT !.pc = Settled(outcome), !.outcome = outcome]
  /\ UNCHANGED router

(***************************************************************************)
(* MessagePublisher                                                        *)
(***************************************************************************)
FacadeTopics == {"unimix/status"}
FacadePayloads == {"text", "object"}

\* A call of MessagePublisher.publish: where it stands, its error, what it
\* handed to publisher.publish, the number of that call, and whether a call
\* before it was refused for want of a publisher.
IdleFacade == [pc |-> "idle", err |-> "none", delegated |-> << >>, call |-> 0,
               refused |-> FALSE]

\* The state after getInstance() has made the instance.
FacadeConstructed ==
  /\ publisher = "null"
  /\ facade = IdleFacade

\* MessagePublisher.setPublisher(this.messageBus)
setPublisher ==
  /\ publisher' = "bus"
  /\ UNCHANGED facade

\* Mutation of MessagePublisherPublish: this.publisher is not tested.
MessagePublisherPublishUnchecked(topic, payload, c) ==
  /\ facade.pc # "awaitPublisher"
  /\ PublishStart(c)
  /\ facade' = [pc |-> IF calls'[c].pc = "rejected" THEN "rejected" ELSE "awaitPublisher",
                err |-> calls'[c].err, delegated |-> <<topic, payload>>, call |-> c,
                refused |-> facade.refused]
  /\ UNCHANGED publisher

\* MessagePublisher.publish: it throws if no publisher is set, and awaits
\* this.publisher.publish(topic, payload) otherwise; c is the number the call
\* has among the calls of MessageBus.publish.
MessagePublisherPublish(topic, payload, c) ==
  /\ facade.pc # "awaitPublisher"
  /\ IF publisher = "null"
       THEN /\ facade' = [IdleFacade EXCEPT !.pc = "rejected", !.err = "NotInitialized",
                                            !.refused = TRUE]
            /\ UNCHANGED busVars
       ELSE /\ PublishStart(c)
            /\ facade' = [pc |-> IF calls'[c].pc = "rejected" THEN "rejected"
                                                               ELSE "awaitPublisher",
                          err |-> calls'[c].err, delegated |-> <<topic, payload>>,
                          call |-> c, refused |-> facade.refused]
  /\ UNCHANGED publisher

\* The promise of MessageBus.publish settles, and the awaiting call with it.
PublisherSettled ==
  /\ facade.pc = "awaitPublisher"
  /\ calls[facade.call].pc \in {"resolved", "rejected"}
  /\ facade' = [facade EXCEPT !.pc = calls[facade.call].pc, !.err = calls[facade.call].err]
  /\ UNCHANGED publisher

(***************************************************************************)
(* MessageBus: inbound messages and bus-level handlers                     *)
(***************************************************************************)
\* Bus-level handlers: the one ApplicationManager.setupMessageRouting
\* registers, and two more.
BusHandlers == {"routeMessage", "observerA", "observerB"}

InboundPayloads == {"{}", "42"}

\* The state after the constructor.
DispatchConstructed ==
  /\ messageHandlers = << >>
  /\ messagesReceived = 0
  /\ dispatch = << >>

\* MessageBus.registerHandler
BusRegisterHandler(handler) ==
  /\ messageHandlers' = SetAdd(messageHandlers, handler)
  /\ UNCHANGED <<messagesReceived, dispatch>>

\* MessageBus.removeHandler
BusRemoveHandler(handler) ==
  /\ messageHandlers' = SetDelete(messageHandlers, handler)
  /\ UNCHANGED <<messagesReceived, dispatch>>

\* Mutation of BusHandleIncomingMessage: a message is counted only if some
\* handler is there to receive it.
BusHandleIncomingMessageIfHandled(topic, payload, throwing) ==
  /\ messagesReceived < MaxReceived
  /\ messagesReceived' = messagesReceived + (IF messageHandlers = << >> THEN 0 ELSE 1)
  /\ lastActivity' = "set"
  /\ dispatch' = ForEachHandler(messageHandlers, throwing, topic, payload)
  /\ UNCHANGED messageHandlers

\* MessageBus.handleIncomingMessage, called by the forwarder of a transport
BusHandleIncomingMessage(topic, payload, throwing) ==
  /\ messagesReceived < MaxReceived
  /\ messagesReceived' = messagesReceived + 1
  /\ lastActivity' = "set"
  /\ dispatch' = ForEachHandler(messageHandlers, throwing, topic, payload)
  /\ UNCHANGED messageHandlers

(***************************************************************************)
(* Specifications                                                          *)
(***************************************************************************)
\* The bus over its configured transports.
InitBus ==
  /\ BusConstructed
  /\ config = DefaultConfig
  /\ serial = SerialConstructed
  /\ lastCall = "none"
  /\ InboundConstructed
  /\ MqttTransportConstructed
  /\ RouterConstructed
  /\ DispatchConstructed
  /\ RegistryConstructed
  /\ FanOutConstructed
  /\ SerialIOConstructed
  /\ FacadeConstructed
  /\ LinkConstructed
  /\ AppConstructed
  /\ opsIssued = 0

NextBus ==
  \/ \E c \in Calls : PublishStart(c) /\ UNCHANGED nonBusVars
  \/ \E c \in Calls : PublishAccepted(c) /\ UNCHANGED nonBusVars
  \/ \E c \in Calls : PublishFailed(c) /\ UNCHANGED nonBusVars
  \/ \E o \in Objs : initializeTransports(o) /\ UNCHANGED nonBusVars
  \/ \E n \in Names : /\ initialize(n)
                       /\ UNCHANGED <<busConfig, removals, removed>>
                       /\ UNCHANGED otherVars
  \/ \E o \in Objs : LinkUp(o) /\ UNCHANGED nonBusVars
  \/ \E o \in Objs : LinkDown(o) /\ UNCHANGED nonBusVars

SpecBus == InitBus /\ [][NextBus]_vars

\* One framed-link transport, its callers and its serial port.
InitSerial ==
  /\ BusConstructed
  /\ fallbackEnabled = TRUE
  /\ config \in Configs
  /\ serial = SerialConstructed
  /\ lastCall = "none"
  /\ InboundConstructed
  /\ MqttTransportConstructed
  /\ RouterConstructed
  /\ DispatchConstructed
  /\ RegistryConstructed
  /\ FanOutConstructed
  /\ SerialIOConstructed
  /\ FacadeConstructed
  /\ LinkConstructed
  /\ AppConstructed
  /\ opsIssued = 0

NextSerial ==
  \/ Connect /\ UNCHANGED nonSerialVars
  \/ Disconnect /\ UNCHANGED nonSerialVars
  \/ ForceReconnect /\ UNCHANGED nonSerialVars
  \/ EnableAutoReconnect /\ UNCHANGED nonSerialVars
  \/ DisableAutoReconnect /\ UNCHANGED nonSerialVars
  \/ ResetReconnectAttempts /\ UNCHANGED nonSerialVars
  \/ TimerFires /\ UNCHANGED nonSerialVars
  \/ StrayTimerFires /\ UNCHANGED nonSerialVars
  \/ PortOpened /\ UNCHANGED nonSerialVars
  \/ PortOpenFailed /\ UNCHANGED nonSerialVars
  \/ PortError /\ UNCHANGED nonSerialVars
  \/ PortLost /\ UNCHANGED nonSerialVars
  \/ PortClosed /\ UNCHANGED nonSerialVars

SpecSerial == InitSerial /\ [][NextSerial]_vars

\* One framed-link transport, its subscriptions and the lines it receives.
InitInbound ==
  /\ BusConstructed
  /\ fallbackEnabled = TRUE
  /\ config = DefaultConfig
  /\ serial = SerialConstructed
  /\ lastCall = "none"
  /\ InboundConstructed
  /\ MqttTransportConstructed
  /\ RouterConstructed
  /\ DispatchConstructed
  /\ RegistryConstructed
  /\ FanOutConstructed
  /\ SerialIOConstructed
  /\ FacadeConstructed
  /\ LinkConstructed
  /\ AppConstructed
  /\ opsIssued = 0

NextInbound ==
  \/ \E t1, t2 \in Patterns : subscribe({t1, t2}) /\ UNCHANGED nonInboundVars
  \/ \E data \in Lines : handleIncomingMessage(data, {}) /\ UNCHANGED nonInboundVars

SpecInbound == InitInbound /\ [][NextInbound]_vars

\* One broker transport, its handlers and the messages of the broker.
InitMqtt == InitInbound

NextMqtt ==
  \/ \E handler \in Handlers : MqttOnMessage(handler) /\ UNCHANGED nonMqttVars
  \/ \E handler \in Handlers : MqttRemoveMessageHandler(handler) /\ UNCHANGED nonMqttVars
  \/ MqttConnect /\ UNCHANGED nonMqttVars
  \/ BrokerConnected /\ UNCHANGED nonMqttVars
  \/ BrokerDisconnected /\ UNCHANGED nonMqttVars
  \/ \E topic \in MqttTopics, payload \in Buffers :
       BrokerMessage(topic, payload) /\ UNCHANGED nonMqttVars

SpecMqtt == InitMqtt /\ [][NextMqtt]_vars

transportNonRouterVars == <<serialVars, inboundVars, mqttVars, serialIOVars, facadeVars, linkVars, appVars>>

\* The router, the messages routed to it and the handlers it invokes, and
\* the first MaxOps queries made of it.
InitRouter == InitInbound

NextRouter ==
  \/ \E type \in MessageTypes, handler \in HandlerObjs :
       registerHandler(type, handler) /\ UNCHANGED nonRouterVars
  \/ \E topic \in MqttTopics, payload \in RouterPayloads, sync \in {"throws", "pending"} :
       RouteFromBus(topic, payload, sync) /\ UNCHANGED nonRouterVars
  \/ HandlerPublishes /\ UNCHANGED nonRouterVars
  \/ \E outcome \in {"fulfilled", "rejected"} :
       HandlerSettles(outcome) /\ UNCHANGED nonRouterVars
  \/ /\ opsIssued < MaxOps /\ opsIssued' = opsIssued + 1
     /\ getSupportedMessageTypes
     /\ UNCHANGED <<busVars, registryVars, fanoutVars, dispatchVars, transportNonRouterVars>>
  \/ \E type \in MessageTypes :
       /\ opsIssued < MaxOps /\ opsIssued' = opsIssued + 1
       /\ isMessageTypeSupported(type)
       /\ UNCHANGED <<busVars, registryVars, fanoutVars, dispatchVars, transportNonRouterVars>>

SpecRouter == InitRouter /\ [][NextRouter]_vars

\* The bus, its handlers and the messages its transports forward to it.
InitDispatch == InitInbound

NextDispatch ==
  \/ \E handler \in BusHandlers : BusRegisterHandler(handler) /\ UNCHANGED nonDispatchVars
  \/ \E handler \in BusHandlers : BusRemoveHandler(handler) /\ UNCHANGED nonDispatchVars
  \/ \E topic \in MqttTopics, payload \in InboundPayloads, throwing \in SUBSET BusHandlers :
       /\ BusHandleIncomingMessage(topic, payload, throwing)
       /\ UNCHANGED <<transports, primaryTransportName, fallbackEnabled, messagesSent,
                      connected, calls>>
       /\ UNCHANGED <<serialVars, inboundVars, mqttVars, routerVars, registryVars>>
       /\ UNCHANGED <<appVars, linkVars, fanoutVars, opsVars, serialIOVars, facadeVars>>

SpecDispatch == InitDispatch /\ [][NextDispatch]_vars

\* The registry of a bus built with any configuration, under any calls.
InitRegistry ==
  /\ transports = <<>>
  /\ primaryTransportName = NoName
  /\ fallbackEnabled = TRUE
  /\ messagesSent = 0
  /\ lastActivity = "undefined"
  /\ connected = [o \in Objs |-> FALSE]
  /\ calls = [c \in Calls |-> IdleCall]
  /\ busConfig \in BusConfigs
  /\ removals = EmptyBag
  /\ thrown = "none"
  /\ removed = NoName
  /\ FanOutConstructed
  /\ SerialIOConstructed
  /\ FacadeConstructed
  /\ LinkConstructed
  /\ AppConstructed
  /\ opsIssued = 0
  /\ config = DefaultConfig
  /\ serial = SerialConstructed
  /\ lastCall = "none"
  /\ InboundConstructed
  /\ MqttTransportConstructed
  /\ RouterConstructed
  /\ DispatchConstructed

\* The transport objects handed to the registry: one of each kind.
RegistryObjs == {"serial-primary", "mqtt-primary"}

NextRegistry ==
  \/ \E n \in Names, o \in RegistryObjs :
       addTransport(n, o) /\ UNCHANGED registryVars /\ UNCHANGED otherVars
  \/ \E n \in Names :
       setTransport(n) /\ UNCHANGED <<busConfig, removals, removed>> /\ UNCHANGED otherVars
  \/ \E n \in Names :
       removeTransport(n) /\ UNCHANGED <<busConfig, thrown>> /\ UNCHANGED otherVars
  \/ \E r \in BagToSet(removals) :
       Disconnected(r) /\ UNCHANGED <<busConfig, thrown>> /\ UNCHANGED otherVars
  \/ \E o \in RegistryObjs : LinkChanges(o) /\ UNCHANGED registryVars /\ UNCHANGED otherVars

SpecRegistry == InitRegistry /\ [][NextRegistry]_vars


\* The groups no operation of the bus touches.
transportVars == <<serialVars, inboundVars, mqttVars, routerVars, serialIOVars, facadeVars, linkVars, appVars>>

\* subscribe, connectAll and disconnectAll over a registry of transports
\* whose links come and go.
InitFanOut == InitBus

NextFanOut ==
  \/ \E o \in Objs : addTransport(o, o) /\ UNCHANGED nonBusVars
  \/ \E o \in Objs : LinkChanges(o) /\ UNCHANGED nonBusVars
  \/ \E failing \in SUBSET Objs : BusSubscribe(failing) /\ UNCHANGED nonFanoutVars
  \/ \E failing \in SUBSET Objs : connectAll(failing) /\ UNCHANGED nonFanoutVars
  \/ \E failing \in SUBSET Objs : disconnectAll(failing) /\ UNCHANGED nonFanoutVars
  \/ AllSettled /\ UNCHANGED <<registryVars, dispatchVars, opsVars, transportVars>>

SpecFanOut == InitFanOut /\ [][NextFanOut]_vars

\* The bus as ApplicationManager builds it, under all of its operations, for
\* the first MaxOps calls made on it.
InitBusOps == InitBus

Called ==
  /\ opsIssued < MaxOps
  /\ opsIssued' = opsIssued + 1

NextBusOps ==
  \/ \E o \in RegistryObjs :
       /\ Called /\ addTransport(o, o)
       /\ UNCHANGED <<registryVars, dispatchVars, fanoutVars, transportVars>>
  \/ \E n \in RegistryObjs :
       /\ Called /\ setTransport(n)
       /\ UNCHANGED <<busConfig, removals, removed, dispatchVars, fanoutVars, transportVars>>
  \/ \E n \in RegistryObjs :
       /\ Called /\ removeTransport(n)
       /\ UNCHANGED <<busConfig, thrown, dispatchVars, fanoutVars, transportVars>>
  \/ \E r \in BagToSet(removals) :
       /\ Disconnected(r)
       /\ UNCHANGED <<busConfig, thrown, dispatchVars, fanoutVars, opsVars, transportVars>>
  \/ \E o \in RegistryObjs :
       /\ LinkChanges(o)
       /\ UNCHANGED <<registryVars, dispatchVars, fanoutVars, opsVars, transportVars>>
  \/ Called /\ PublishStart(1) /\ UNCHANGED <<registryVars, dispatchVars, fanoutVars, transportVars>>
  \/ PublishAccepted(1) /\ UNCHANGED nonBusVars
  \/ PublishFailed(1) /\ UNCHANGED nonBusVars
  \/ \E failing \in SUBSET RegistryObjs :
       Called /\ BusSubscribe(failing) /\ UNCHANGED <<registryVars, dispatchVars, transportVars>>
  \/ \E failing \in SUBSET RegistryObjs :
       Called /\ connectAll(failing) /\ UNCHANGED <<registryVars, dispatchVars, transportVars>>
  \/ \E failing \in SUBSET RegistryObjs :
       Called /\ disconnectAll(failing) /\ UNCHANGED <<registryVars, dispatchVars, transportVars>>
  \/ AllSettled /\ UNCHANGED <<registryVars, dispatchVars, opsVars, transportVars>>
  \/ Called /\ getStatus /\ UNCHANGED <<registryVars, fanoutVars, transportVars>>
  \/ \E topic \in MqttTopics, payload \in InboundPayloads :
       /\ BusHandleIncomingMessage(topic, payload, {})
       /\ UNCHANGED <<transports, primaryTransportName, fallbackEnabled, messagesSent,
                      connected, calls>>
       /\ UNCHANGED <<registryVars, fanoutVars, opsVars, transportVars>>

SpecBusOps == InitBusOps /\ [][NextBusOps]_vars

\* The groups no operation of the serial transport touches.
busSideVars == <<busVars, mqttVars, routerVars, dispatchVars, registryVars, fanoutVars, facadeVars, linkVars, appVars>>

\* The lines that arrive: s:p:q, s/k (no colon) and s:p with a carriage
\* return at its end.
IOLines == {<<"s", ":", "p", ":", "q">>, <<"s", "/", "k">>, <<"s", ":", "p", "\r">>}

\* The forwarder of the bus catches what the bus handlers throw
\* (handleIncomingMessage of MessageBus); another handler may throw.
Throwers == {"observer"}

\* The serial transport with its default configuration: its connection, the
\* lines its open ports hand over, its handlers and publish, for the first
\* MaxOps calls made on it.
InitSerialIO == InitInbound

NextSerialIO ==
  \/ Called /\ Connect /\ UNCHANGED <<inboundVars, serialIOVars, busSideVars>>
  \/ Called /\ Disconnect /\ UNCHANGED <<inboundVars, serialIOVars, busSideVars>>
  \/ Called /\ ForceReconnect /\ UNCHANGED <<inboundVars, serialIOVars, busSideVars>>
  \/ TimerFires /\ UNCHANGED nonSerialVars
  \/ StrayTimerFires /\ UNCHANGED nonSerialVars
  \/ PortOpened /\ UNCHANGED nonSerialVars
  \/ PortOpenFailed /\ UNCHANGED nonSerialVars
  \/ PortError /\ UNCHANGED nonSerialVars
  \/ PortLost /\ UNCHANGED nonSerialVars
  \/ PortClosed /\ UNCHANGED nonSerialVars
  \/ /\ Called /\ publish(<<"s">>, <<"p">>)
     /\ UNCHANGED <<config, lastCall, inboundVars, busSideVars>>
  \/ \E error \in BOOLEAN :
       /\ WriteCompleted(error)
       /\ UNCHANGED <<config, lastCall, inboundVars, opsVars, busSideVars>>
  \/ \E handler \in SerialHandlers :
       /\ Called /\ onMessage(handler)
       /\ UNCHANGED <<serialVars, inboundVars, busSideVars>>
  \/ \E handler \in SerialHandlers :
       /\ Called /\ removeMessageHandler(handler)
       /\ UNCHANGED <<serialVars, inboundVars, busSideVars>>
  \/ \E data \in IOLines, throwing \in SUBSET Throwers :
       /\ LineArrives(data, throwing)
       /\ UNCHANGED <<config, lastCall, opsVars, busSideVars>>

SpecSerialIO == InitSerialIO /\ [][NextSerialIO]_vars

\* The serial transport with its default configuration and a device that is
\* unplugged and plugged in again: ports fail while the device is away and
\* open while it is there.  Callers make at most MaxOps calls of connect()
\* and forceReconnect(), and none of disconnect() or disableAutoReconnect().
LiveTimerFires == TimerFires /\ UNCHANGED <<linkVars, nonSerialLinkVars>>
LiveStrayTimerFires == StrayTimerFires /\ UNCHANGED <<linkVars, nonSerialLinkVars>>
LivePortOpened == Openable /\ PortOpened /\ UNCHANGED <<linkVars, nonSerialLinkVars>>
LivePortOpenFailed == ~Openable /\ PortOpenFailed /\ UNCHANGED <<linkVars, nonSerialLinkVars>>
LivePortLost == ~Openable /\ PortLost /\ UNCHANGED <<linkVars, nonSerialLinkVars>>
LivePortClosed == PortClosed /\ UNCHANGED <<linkVars, nonSerialLinkVars>>

InitSerialLive == InitInbound

NextSerialLive ==
  \/ Called /\ Connect /\ UNCHANGED <<linkVars, inboundVars, serialIOVars, busSideVars>>
  \/ Called /\ ForceReconnect /\ UNCHANGED <<linkVars, inboundVars, serialIOVars, busSideVars>>
  \/ DeviceRemoved /\ UNCHANGED <<serialVars, nonSerialLinkVars>>
  \/ DeviceBack /\ UNCHANGED <<serialVars, nonSerialLinkVars>>
  \/ LiveTimerFires
  \/ LiveStrayTimerFires
  \/ LivePortOpened
  \/ LivePortOpenFailed
  \/ LivePortLost
  \/ LivePortClosed

\* Every scheduled timer fires and every open or close completes.
SpecSerialLive ==
  /\ InitSerialLive
  /\ [][NextSerialLive]_vars
  /\ WF_vars(LiveTimerFires)
  /\ WF_vars(LiveStrayTimerFires)
  /\ WF_vars(LivePortOpened)
  /\ WF_vars(LivePortOpenFailed)
  /\ WF_vars(LivePortClosed)

(***************************************************************************)
(* ApplicationManager: the bus assembled with its transports               *)
(***************************************************************************)
\* The serial transport is followed with its ports and timers; of a broker
\* transport only what isConnected() returns is followed (`connected`).
SerialObj == "serial-primary"
BrokerObj == "mqtt-primary"

\* config.messageBus.primaryTransport
ConfiguredPrimary == "serial-primary"

\* config.topics.subscriptions
Subscriptions == {<<"s", "/", "k">>}

\* Lines the serial device sends: one on a configured topic, one on another.
AppLines == {<<"s", "/", "k", ":", "p">>, <<"x", ":", "p">>}

\* What no operation of the assembly touches.
appIdleVars == <<fallbackEnabled, messagesSent, calls, mqttDelivery, routerVars, busConfig,
                 thrown, fanoutVars, written, facade, linkVars>>

Registered(o) == \E i \in 1..Len(transports) : transports[i].obj = o

\* isConnected() of the serial transport, as the bus sees it from now on.
Mirror == connected' = [connected EXCEPT ![SerialObj] = isConnected(serial')]

\* ApplicationManager.initialize: initializeTransports adds the enabled
\* transports of the configuration (addTransport hands each of them a
\* forwarder), setTransport makes the configured primary the primary,
\* setupMessageRouting registers the router with the bus and
\* initializeMessagePublisher hands the bus to the MessagePublisher.
RECURSIVE AddEach(_, _)
AddEach(m, objs) ==
  IF objs = << >> THEN m ELSE AddEach(MapSet(m, Head(objs), Head(objs)), Tail(objs))

AppInitialize(mqttEnabled) ==
  /\ app.phase = "constructed"
  /\ transports' = AddEach(transports,
                           SelectSeq(ConfigTransports,
                                     LAMBDA o : ~IsMqttTransport(o) \/ mqttEnabled))
  /\ primaryTransportName' = ConfiguredPrimary
  /\ serialHandlers' = SetAdd(serialHandlers, "busForwarder")
  /\ mqtt' = IF mqttEnabled
               THEN [mqtt EXCEPT !.messageHandlers = @ \cup {"busForwarder"}]
               ELSE mqtt
  /\ messageHandlers' = SetAdd(messageHandlers, "routeMessage")
  /\ publisher' = "bus"
  /\ app' = [app EXCEPT !.phase = "initialized"]
  /\ UNCHANGED <<lastActivity, connected, serialVars, inboundVars, messagesReceived,
                 dispatch, removals, removed, opsVars, isRunning, appIdleVars>>

\* MessageBus.addTransport(n, transport) for a broker transport, with the
\* forwarder it hands to the transport.
AddBrokerTransport(n) ==
  /\ addTransport(n, BrokerObj)
  /\ MqttOnMessage("busForwarder")
  /\ UNCHANGED <<serialVars, inboundVars, routerVars, dispatchVars, registryVars,
                 fanoutVars, serialIOVars, facadeVars, linkVars, appVars>>

\* MessageBus.subscribe(config.topics.subscriptions) as subscribeToTopics
\* calls it: the topics go to the transports that are connected at the call.
SubscribeToTopics ==
  subscribedTopics' = IF Registered(SerialObj) /\ connected'[SerialObj]
                        THEN subscribedTopics \cup Subscriptions
                        ELSE subscribedTopics

\* ApplicationManager.start up to `await Promise.allSettled` in
\* connectTransports: connect() is called on every registered transport.
\* With nothing registered it goes straight on to subscribeToTopics.
start ==
  /\ app.phase \in {"initialized", "stopped"}
  /\ IF Registered(SerialObj)
       THEN Connect /\ Mirror
       ELSE UNCHANGED <<serialVars, connected>>
  /\ LET objs == Range(MapValues(transports))
     IN IF objs = {}
          THEN /\ app' = [app EXCEPT !.phase = "statusPublishing", !.primary = NoObj,
                                         !.awaiting = {}, !.failed = {}]
               /\ SubscribeToTopics
          ELSE /\ app' = [app EXCEPT !.phase = "starting",
                                         !.primary = MapGet(transports, ConfiguredPrimary),
                                         !.awaiting = objs, !.failed = {}]
               /\ UNCHANGED subscribedTopics
  /\ UNCHANGED <<transports, primaryTransportName, lastActivity, delivery, mqtt,
                 dispatchVars, removals, removed, serialHandlers, publisher, isRunning,
                 appIdleVars>>

\* The promise of o's connect() settles; ok tells whether it resolves.  The
\* catch of connectTransports rethrows the error of the primary, and
\* Promise.allSettled takes that rejection like any other outcome: once
\* every promise has settled start() goes on with subscribeToTopics.
ConnectSettled(o, ok) ==
  LET awaiting == app.awaiting \ {o}
      failed == IF ok THEN app.failed ELSE app.failed \cup {o}
  IN IF app.phase = "starting" /\ o \in app.awaiting
       THEN IF awaiting = {}
              THEN /\ app' = [app EXCEPT !.phase = "statusPublishing",
                                         !.awaiting = {}, !.failed = failed]
                   /\ SubscribeToTopics
              ELSE /\ app' = [app EXCEPT !.awaiting = awaiting, !.failed = failed]
                   /\ UNCHANGED subscribedTopics
       ELSE UNCHANGED <<app, subscribedTopics>>

\* initializeStatusPublishing has published the first status (or failed to,
\* which publishStatus catches): start() sets isRunning and resolves.
StatusPublished ==
  /\ app.phase = "statusPublishing"
  /\ app' = [app EXCEPT !.phase = "running"]
  /\ isRunning' = TRUE
  /\ UNCHANGED <<busVars, serialVars, inboundVars, mqtt, dispatchVars, removals, removed,
                 opsVars, serialHandlers, publisher, appIdleVars>>

\* A disconnect() that stop() awaits has resolved: with the last of them
\* disconnectAll returns and stop() clears isRunning.
StopSettled(o) ==
  LET awaiting == app.stopAwaiting \ {o}
  IN IF app.phase = "stopping" /\ o \in app.stopAwaiting
       THEN IF awaiting = {}
              THEN /\ app' = [app EXCEPT !.phase = "stopped", !.stopAwaiting = {}]
                   /\ isRunning' = FALSE
              ELSE /\ app' = [app EXCEPT !.stopAwaiting = awaiting]
                   /\ UNCHANGED isRunning
       ELSE UNCHANGED <<app, isRunning>>

\* ApplicationManager.stop up to `await Promise.allSettled` in
\* MessageBus.disconnectAll: disconnect() is called on the registered
\* transports that are connected.
stop ==
  /\ app.phase = "running"
  /\ LET targets == {o \in Range(MapValues(transports)) : connected[o]}
     IN /\ IF SerialObj \in targets
             THEN /\ serial' = disconnect(serial, "stop")
                  /\ lastCall' = "disconnect"
                  /\ Mirror
             ELSE UNCHANGED <<serial, lastCall, connected>>
        /\ IF targets = {}
             THEN /\ app' = [app EXCEPT !.phase = "stopped"]
                  /\ isRunning' = FALSE
             ELSE /\ app' = [app EXCEPT !.phase = "stopping", !.stopAwaiting = targets]
                  /\ UNCHANGED isRunning
  /\ UNCHANGED <<transports, primaryTransportName, lastActivity, config, inboundVars, mqtt,
                 dispatchVars, removals, removed, serialHandlers, publisher, appIdleVars>>

\* The disconnect() that removeTransport awaits has resolved: the name is
\* deleted.
RemovalSettled(o) ==
  IF \E r \in BagToSet(removals) : r.obj = o
    THEN LET r == CHOOSE r \in BagToSet(removals) : r.obj = o
         IN /\ removals' = removals (-) SetToBag({r})
            /\ deleteTransport(r.name)
    ELSE UNCHANGED <<transports, primaryTransportName, removals, removed>>

\* MessageBus.removeTransport in the assembly, from the call to its await
\* or, for a transport that is not connected, to its end.
RemoveTransport(n) ==
  LET transport == MapGet(transports, n)
  IN /\ IF transport = NoObj
          THEN UNCHANGED <<transports, primaryTransportName, removals, removed,
                           serial, lastCall, connected>>
        ELSE IF connected[transport]
          THEN /\ BagCardinality(removals) < MaxRemovals
               /\ removals' = removals (+) SetToBag({[name |-> n, obj |-> transport]})
               /\ IF transport = SerialObj
                    THEN /\ serial' = disconnect(serial, "removeTransport")
                         /\ lastCall' = "disconnect"
                         /\ Mirror
                    ELSE UNCHANGED <<serial, lastCall, connected>>
               /\ UNCHANGED <<transports, primaryTransportName, removed>>
        ELSE deleteTransport(n) /\ UNCHANGED <<removals, serial, lastCall, connected>>
     /\ UNCHANGED <<lastActivity, config, inboundVars, mqtt, dispatchVars, serialHandlers,
                    publisher, appVars, appIdleVars>>

\* The broker answers the connect() of a broker transport.
BrokerAnswers(o, ok) ==
  /\ IsMqttTransport(o)
  /\ app.phase = "starting"
  /\ o \in app.awaiting
  /\ connected' = [connected EXCEPT ![o] = ok]
  /\ ConnectSettled(o, ok)
  /\ UNCHANGED <<transports, primaryTransportName, lastActivity, serialVars, delivery, mqtt,
                 dispatchVars, removals, removed, opsVars, serialHandlers, publisher,
                 isRunning, appIdleVars>>

\* The disconnect() of a broker transport resolves.
BrokerReleased(o) ==
  /\ IsMqttTransport(o)
  /\ \/ app.phase = "stopping" /\ o \in app.stopAwaiting
     \/ \E r \in BagToSet(removals) : r.obj = o
  /\ connected' = [connected EXCEPT ![o] = FALSE]
  /\ StopSettled(o)
  /\ RemovalSettled(o)
  /\ UNCHANGED <<lastActivity, serialVars, inboundVars, mqtt, dispatchVars, opsVars,
                 serialHandlers, publisher, appIdleVars>>

\* The serial transport's timers and ports in the assembly.
ConnectPending(s) ==
  \E ref \in LivePorts(s) : ref[2].origin = "connect" /\ ~ref[2].settled

ClosingFor(s, cb) ==
  \E ref \in LivePorts(s) : ref[2].st = "closing" /\ ref[2].cb = cb

serialEventVars == <<transports, primaryTransportName, lastActivity, delivery, mqtt,
                     dispatchVars, removals, removed, opsVars, serialHandlers, publisher,
                     appIdleVars>>

AppTimerFires ==
  /\ TimerFires
  /\ Mirror
  /\ UNCHANGED <<subscribedTopics, appVars, serialEventVars>>

\* A port opens or fails to open; if start() awaits it, its promise settles.
AppPortOpened ==
  /\ PortOpened
  /\ Mirror
  /\ IF ConnectPending(serial) /\ ~ConnectPending(serial')
       THEN ConnectSettled(SerialObj, TRUE)
       ELSE UNCHANGED <<app, subscribedTopics>>
  /\ UNCHANGED <<isRunning, serialEventVars>>

AppPortOpenFailed ==
  /\ PortOpenFailed
  /\ Mirror
  /\ IF ConnectPending(serial) /\ ~ConnectPending(serial')
       THEN ConnectSettled(SerialObj, FALSE)
       ELSE UNCHANGED <<app, subscribedTopics>>
  /\ UNCHANGED <<isRunning, serialEventVars>>

AppPortLost ==
  /\ PortLost
  /\ Mirror
  /\ UNCHANGED <<subscribedTopics, appVars, serialEventVars>>

\* A close completes; the disconnect() that asked for it resolves.
AppPortClosed ==
  /\ PortClosed
  /\ Mirror
  /\ IF ClosingFor(serial, "stop") /\ ~ClosingFor(serial', "stop")
       THEN StopSettled(SerialObj)
       ELSE UNCHANGED <<app, isRunning>>
  /\ IF ClosingFor(serial, "removeTransport") /\ ~ClosingFor(serial', "removeTransport")
       THEN RemovalSettled(SerialObj)
       ELSE UNCHANGED <<transports, primaryTransportName, removals, removed>>
  /\ UNCHANGED <<lastActivity, inboundVars, mqtt, dispatchVars, opsVars, serialHandlers,
                 publisher, appIdleVars>>

\* The parser of an open port hands over a line; the forwarder of the bus,
\* if the transport calls it, hands the message to the bus.
SerialLine(data) ==
  /\ LineArrives(data, {})
  /\ IF \E i \in 1..Len(delivery'.calls) : delivery'.calls[i].handler = "busForwarder"
       THEN BusHandleIncomingMessage(delivery'.topic, delivery'.payload, {})
       ELSE UNCHANGED <<dispatchVars, lastActivity>>
  /\ UNCHANGED <<transports, primaryTransportName, connected, config, lastCall, mqtt,
                 removals, removed, opsVars, publisher, appVars, appIdleVars>>

InitApp == InitInbound

NextApp ==
  \/ \E mqttEnabled \in BOOLEAN : AppInitialize(mqttEnabled)
  \/ \E n \in {SerialObj, BrokerObj} : Called /\ AddBrokerTransport(n)
  \/ \E n \in {SerialObj, BrokerObj} : Called /\ RemoveTransport(n)
  \/ Called /\ start
  \/ Called /\ stop
  \/ StatusPublished
  \/ \E o \in Objs, ok \in BOOLEAN : BrokerAnswers(o, ok)
  \/ \E o \in Objs : BrokerReleased(o)
  \/ AppTimerFires
  \/ AppPortOpened
  \/ AppPortOpenFailed
  \/ AppPortLost
  \/ AppPortClosed
  \/ \E data \in AppLines : SerialLine(data)

SpecApp == InitApp /\ [][NextApp]_vars

(***************************************************************************)
(* SerialTransport: a frame read back                                      *)
(***************************************************************************)
\* Topics and single-line string payloads handed to publish.
FrameTopics == {<<"s">>, <<"s", "/", "k">>, <<"s", ":", "k">>, <<" ", "s">>}
FramePayloads == {<< >>, <<"p">>, <<"p", ":", "q">>, <<"p", " ">>, <<" ", "p">>, <<"{", "}">>}

\* ReadlineParser({ delimiter: "\n" }): the first line of the bytes it is
\* given, without the delimiter.
ReadLine(bytes) == SubstringTo(bytes, IndexOf(bytes, "\n"))

\* The device at the other end sends back the frame that was written; the
\* parser of the open port hands its line to the "data" handler.
FrameComesBack ==
  /\ written.outcome = "resolved"
  /\ LineArrives(ReadLine(written.message), {})

\* A serial transport whose device echoes what is written to it.
InitLoopback == InitInbound

NextLoopback ==
  \/ Called /\ Connect /\ UNCHANGED <<inboundVars, serialIOVars, busSideVars>>
  \/ PortOpened /\ UNCHANGED nonSerialVars
  \/ PortLost /\ UNCHANGED nonSerialVars
  \/ \E topic \in FrameTopics, payload \in FramePayloads :
       /\ publish(topic, payload)
       /\ UNCHANGED <<config, lastCall, inboundVars, opsVars, busSideVars>>
  \/ \E error \in BOOLEAN :
       /\ WriteCompleted(error)
       /\ UNCHANGED <<config, lastCall, inboundVars, opsVars, busSideVars>>
  \/ FrameComesBack /\ UNCHANGED <<config, lastCall, opsVars, busSideVars>>

SpecLoopback == InitLoopback /\ [][NextLoopback]_vars

\* The bus behind MessagePublisher: every publish goes through
\* MessagePublisher.publish.
InitFacade == InitBus

NextFacade ==
  \/ setPublisher /\ UNCHANGED nonFacadeVars
  \/ \E topic \in FacadeTopics, payload \in FacadePayloads, c \in Calls :
       /\ MessagePublisherPublish(topic, payload, c)
       /\ UNCHANGED <<serialVars, inboundVars, mqttVars, routerVars, dispatchVars>>
       /\ UNCHANGED <<appVars, linkVars, registryVars, fanoutVars, opsVars, serialIOVars>>
  \/ PublisherSettled /\ UNCHANGED nonFacadeVars
  \/ \E c \in Calls : PublishAccepted(c) /\ UNCHANGED nonBusVars
  \/ \E c \in Calls : PublishFailed(c) /\ UNCHANGED nonBusVars
  \/ \E o \in Objs : initializeTransports(o) /\ UNCHANGED nonBusVars
  \/ \E o \in Objs : LinkUp(o) /\ UNCHANGED nonBusVars
  \/ \E o \in Objs : LinkDown(o) /\ UNCHANGED nonBusVars

SpecFacade == InitFacade /\ [][NextFacade]_vars

(***************************************************************************)
(* MessageBus.publish: properties                                          *)
(***************************************************************************)
IsPrefix(a, b) == Len(a) <= Len(b) /\ \A i \in 1..Len(a) : a[i] = b[i]

\* a is b with some elements left out, the order kept
RECURSIVE IsSubsequence(_, _)
IsSubsequence(a, b) ==
  IF a = <<>> THEN TRUE
  ELSE IF b = <<>> THEN FALSE
  ELSE IF Head(a) = Head(b) THEN IsSubsequence(Tail(a), Tail(b))
  ELSE IsSubsequence(a, Tail(b))

\* The transports a call invoked other than its primary, in order of invocation
FallbacksInvoked(k) == SelectSeq(k.invoked, LAMBDA o : o # k.primary)

\* The transports of a call's snapshot other than its primary
FallbackCandidates(k) == SelectSeq(k.snapshot, LAMBDA o : o # k.primary)

PrimaryAttemptFailed(k) == k.primary \in Range(k.failed)

\* C1: a publish call invokes a transport other than the primary only if
\* fallback is enabled and the primary was unregistered, was not connected, or
\* its publish for this message failed; and once the connected primary has
\* accepted the message the call has resolved having invoked no other transport.
C1_FallbackOnlyAfterPrimary ==
  \A c \in Calls :
    LET k == calls[c]
    IN /\ FallbacksInvoked(k) # <<>> =>
            /\ fallbackEnabled
            /\ \/ k.primary = NoObj
               \/ ~k.primaryWasConnected
               \/ PrimaryAttemptFailed(k)
       /\ k.primaryWasConnected => k.invoked # <<>> /\ k.invoked[1] = k.primary
       /\ k.primary \in Range(k.accepted) =>
            /\ k.pc = "resolved"
            /\ k.invoked = <<k.primary>>

\* A call that fell back after its connected primary failed.
C1_Witness ==
  \E c \in Calls :
    /\ calls[c].primaryWasConnected
    /\ PrimaryAttemptFailed(calls[c])
    /\ calls[c].pc = "awaitFallback"

\* C2: the fallback transports are invoked one at a time in registration
\* order (the snapshot is the registry filtered by connectivity, and the
\* fallbacks invoked are a prefix of the snapshot without the primary), the
\* call resolves at the first that accepts, having invoked none after it, and
\* it gives up only when all of them failed.  With two transports registered,
\* the primary disconnected and exactly one other connected, only that
\* transport is invoked, the call resolves exactly when it accepts, and it
\* rejects only if that transport's own publish failed.
C2_FallbackInRegistrationOrder ==
  \A c \in Calls :
    LET k == calls[c]
    IN k.pc # "idle" =>
         /\ IsSubsequence(k.snapshot, MapValues(transports))
         /\ IsPrefix(FallbacksInvoked(k), FallbackCandidates(k))
         /\ k.pc = "resolved" =>
              /\ k.accepted = <<Last(k.invoked)>>
              /\ Range(k.failed) = Range(k.invoked) \ {Last(k.invoked)}
         /\ (k.pc = "rejected" /\ fallbackEnabled /\ k.err = "FailedAll") =>
              /\ FallbacksInvoked(k) = FallbackCandidates(k)
              /\ Range(k.failed) = Range(k.invoked)
         /\ k.pc \in {"awaitPrimary", "awaitFallback"} =>
              Len(k.invoked) = Len(k.failed) + 1
         /\ (Len(transports) = 2 /\ fallbackEnabled /\ ~k.primaryWasConnected
               /\ Len(k.snapshot) = 1) =>
              /\ IsPrefix(k.invoked, k.snapshot)
              /\ k.pc = "awaitFallback" \/ k.pc = "resolved" \/ k.failed = k.snapshot
              /\ k.pc = "resolved" => k.accepted = k.snapshot

\* Two candidates besides the failed primary: the first failed, the second
\* is being awaited.
C2_Witness ==
  \E c \in Calls :
    /\ calls[c].pc = "awaitFallback"
    /\ Len(FallbackCandidates(calls[c])) = 2
    /\ FallbacksInvoked(calls[c]) = FallbackCandidates(calls[c])

\* The instance of C2: two registered, the primary down, the other accepted.
C2_WitnessTwoTransports ==
  \E c \in Calls :
    /\ Len(transports) = 2
    /\ ~calls[c].primaryWasConnected
    /\ Len(calls[c].snapshot) = 1
    /\ calls[c].pc = "resolved"
    /\ messagesSent = 1

NoTransportConnected == \A i \in 1..Len(transports) : ~connected[transports[i].obj]

\* C3: a publish call made while no transport is connected rejects with the
\* no-connected-transports error, invokes no transport's publish and leaves
\* messagesSent unchanged.
C3_NoConnectedTransportRejects ==
  [][\A c \in Calls :
       (calls[c].pc = "idle" /\ calls'[c].pc # "idle" /\ NoTransportConnected) =>
          /\ calls'[c].pc = "rejected"
          /\ calls'[c].err = "NoConnected"
          /\ calls'[c].invoked = <<>>
          /\ messagesSent' = messagesSent]_vars

\* A call rejected for want of a connected transport, with transports registered.
C3_Witness ==
  \E c \in Calls :
    /\ calls[c].pc = "rejected"
    /\ calls[c].err = "NoConnected"
    /\ Len(transports) >= 2

ResolvedCalls == {c \in Calls : calls[c].pc = "resolved"}

\* C4: whatever the interleaving of the publish calls, a resolved call had its
\* message accepted by exactly one transport, a rejected call by none (every
\* transport it invoked failed), and messagesSent is the number of resolved calls.
C4_SentCountsResolvedCalls ==
  /\ messagesSent = Cardinality(ResolvedCalls)
  /\ \A c \in Calls :
       /\ calls[c].pc = "resolved" => Len(calls[c].accepted) = 1
       /\ calls[c].pc = "rejected" =>
            /\ calls[c].accepted = <<>>
            /\ calls[c].failed = calls[c].invoked
       /\ calls[c].pc \in {"idle", "awaitPrimary", "awaitFallback"} =>
            calls[c].accepted = <<>>

\* Two overlapping calls: the later one has resolved through a fallback
\* while the earlier one is still awaited.
C4_Witness ==
  \E c, d \in Calls :
    /\ c < d
    /\ calls[c].pc \in {"awaitPrimary", "awaitFallback"}
    /\ calls[d].pc = "resolved"
    /\ Last(calls[d].invoked) # calls[d].primary
    /\ messagesSent = 1

(***************************************************************************)
(* Claims about the reconnection of the serial transport                   *)
(***************************************************************************)
\* The retry guard as the specification states it, on the configured
\* maxReconnectAttempts.
RetryGuard(s) ==
  /\ config.autoReconnect
  /\ s.shouldAutoReconnect
  /\ (config.maxReconnectAttempts < 0 \/ s.reconnectAttempts < config.maxReconnectAttempts)

\* A step schedules a retry timer.
TimerScheduled(s, t) ==
  \/ s.reconnectTimer # "pending" /\ t.reconnectTimer = "pending"
  \/ t.strayTimers > s.strayTimers

\* C5: when an open attempt fails, a retry timer is scheduled and the
\* transport is Reconnecting if auto-reconnect is on and (maxAttempts < 0 or
\* attempts < maxAttempts), measured before the failure; otherwise no retry
\* is scheduled.
C5_OpenFailureReconnectsOrFails ==
  [][PortOpenFailed =>
       IF RetryGuard(serial)
         THEN Reconnecting(serial')
         ELSE ~TimerScheduled(serial, serial')]_vars

\* C6: disconnect() while Reconnecting leaves no reconnect timer pending, and
\* from then on no timer starts a connection attempt until connect(),
\* forceReconnect() or enableAutoReconnect() is called.
C6_DisconnectSuppressesReconnect ==
  [][/\ (Disconnect /\ Reconnecting(serial)) => ~TimerPending(serial')
     /\ lastCall = "disconnectWhileReconnecting" => ~(TimerFires \/ StrayTimerFires)]_vars

\* The configured cap of the delay.
MaxDelay == Ms(OrDefault(config.maxReconnectDelay, DefaultMaxReconnectDelay))

\* C7: for every backoff configuration, a failed attempt never lowers
\* currentReconnectDelay and leaves it at or below maxReconnectDelay.
C7_DelayNonDecreasingAndCapped ==
  [][PortOpenFailed =>
       /\ serial'.currentReconnectDelay >= serial.currentReconnectDelay
       /\ serial'.currentReconnectDelay <= MaxDelay]_vars

\* maxReconnectAttempts is finite: -1 stands for unlimited.
FiniteMaxAttempts == config.maxReconnectAttempts >= 0

\* C8: with a finite maxReconnectAttempts the counter never exceeds it, and
\* an attempt that fails once the counter has reached it leaves the transport
\* disconnected and schedules no retry.
C8_AttemptsBoundedByMax ==
  [][/\ FiniteMaxAttempts => serial'.reconnectAttempts <= config.maxReconnectAttempts
     /\ (/\ PortOpenFailed
         /\ FiniteMaxAttempts
         /\ serial.reconnectAttempts >= config.maxReconnectAttempts)
          => ~TimerScheduled(serial, serial') /\ ~isConnected(serial')]_vars

\* forceReconnect has started its attempt: a new port is opening, or the open
\* port is closing and connect() follows the close.
ForceStarted(s) ==
  \/ s.serialPort.st = "opening"
  \/ s.serialPort.st = "closing" /\ s.serialPort.cb = "force"

\* C9: forceReconnect() leaves no reconnect timer pending, the link not open,
\* isReconnecting false, an attempt started and the attempts counter as it
\* was (the port constructor not throwing); the counter goes down only
\* when an open succeeds or resetReconnectAttempts() is called.
C9_ForceReconnectRestarts ==
  [][/\ (ForceReconnect /\ ~config.ctorThrows) =>
          /\ ~TimerPending(serial')
          /\ ~PortIsOpen(serial')
          /\ ~serial'.isReconnecting
          /\ ForceStarted(serial')
          /\ serial'.reconnectAttempts = serial.reconnectAttempts
     /\ serial'.reconnectAttempts < serial.reconnectAttempts
          => PortOpened \/ ResetReconnectAttempts]_vars

\* C10: whenever a port opens, the transport is Connected with
\* reconnectAttempts 0, currentReconnectDelay at its initial value and
\* isReconnecting false.
C10_OpenSucceedsConnected ==
  [][PortOpened =>
       /\ isConnected(serial')
       /\ serial'.reconnectAttempts = 0
       /\ serial'.currentReconnectDelay = InitialDelay
       /\ ~serial'.isReconnecting]_vars

\* The port this.serialPort refers to is lost while the transport is Connected.
CurrentPortLost == PortLost /\ isConnected(serial) /\ ~PortIsOpen(serial')

\* A port emits "error" while the transport is Connected.
ErrorWhileConnected == PortError /\ isConnected(serial)

\* The close started by disconnect() completes, no other call having been
\* made since.
DisconnectCloses ==
  /\ PortClosed
  /\ lastCall \in {"disconnect", "disconnectWhileReconnecting"}
  /\ serial.serialPort.st = "closing"
  /\ serial.serialPort.cb = "disconnect"
  /\ serial'.serialPort.st = "closed"

\* C11: an unexpected close or error while Connected leaves the transport
\* Reconnecting if the retry guard holds and schedules nothing otherwise; the
\* close of a disconnect() leaves it disconnected and schedules no retry.
C11_LossReconnectsDisconnectDoesNot ==
  [][/\ (CurrentPortLost \/ ErrorWhileConnected) =>
          IF RetryGuard(serial)
            THEN Reconnecting(serial')
            ELSE ~TimerScheduled(serial, serial') /\ ~isConnected(serial')
     /\ DisconnectCloses => ~TimerScheduled(serial, serial') /\ ~isConnected(serial')]_vars

\* The number of pending timers.
TimersPending(s) == (IF s.reconnectTimer = "pending" THEN 1 ELSE 0) + s.strayTimers

\* The number of timers a timer or port event schedules.
RetriesScheduled ==
  TimersPending(serial') - TimersPending(serial)
    + (IF TimerFires \/ StrayTimerFires THEN 1 ELSE 0)

\* A timed retry fails: the only ports opening are those of timer callbacks and
\* one of them fails, or the port constructor throws in the timer callback.
RetryFails ==
  \/ /\ PortOpenFailed
     /\ \A ref \in LivePorts(serial) : ref[2].st = "opening" => ref[2].origin = "timer"
  \/ (TimerFires \/ StrayTimerFires) /\ config.ctorThrows

\* min(delay x multiplier, maxDelay), the multiplier in halves
BackedOff(delay) ==
  LET product == delay * OrDefault(config.multiplierHalves, DefaultMultiplierHalves)
  IN IF product <= 2 * MaxDelay THEN product \div 2 ELSE MaxDelay

\* 2000, 3000, 4500, 6750, 10125, 15187.5, 22781.25, 30000 in quarter milliseconds
DefaultWaits ==
  <<Ms(2000), Ms(3000), Ms(4500), Ms(6750), Ms(10125), 60750, 91125, Ms(30000)>>

\* C12: every retry scheduled by a timer or port event adds 1 to
\* reconnectAttempts; handleConnectionLoss, when it schedules a retry, adds 1
\* and gives the timer the currentReconnectDelay of that moment; a failed
\* retry turns currentReconnectDelay into min(currentReconnectDelay x
\* multiplier, maxReconnectDelay); with the default backoff consecutive failed
\* retries step through 2000, 3000, 4500, 6750, ... and stay at 30000.
C12_RetryCountsAndBacksOff ==
  [][/\ (TimerFires \/ StrayTimerFires \/ PortOpenFailed \/ PortError \/ PortLost)
          => serial'.reconnectAttempts = serial.reconnectAttempts + RetriesScheduled
     /\ LET s == [serial EXCEPT !.isReconnecting = FALSE]
            t == handleConnectionLoss(s)
        IN t # s => /\ t.reconnectAttempts = s.reconnectAttempts + 1
                    /\ t.reconnectTimer = "pending"
                    /\ t.timerDelay = s.currentReconnectDelay
     /\ RetryFails
          => serial'.currentReconnectDelay = BackedOff(serial.currentReconnectDelay)
     /\ (RetryFails /\ config = DefaultConfig)
          => \E k \in 1..Len(DefaultWaits) :
               /\ serial.currentReconnectDelay = DefaultWaits[k]
               /\ serial'.currentReconnectDelay =
                    DefaultWaits[IF k < Len(DefaultWaits) THEN k + 1 ELSE k]]_vars

\* With the default backoff the eighth retry in a row waits 30000 ms.
C12_Witness ==
  /\ config = DefaultConfig
  /\ serial.reconnectAttempts = Len(DefaultWaits)
  /\ serial.reconnectTimer = "pending"
  /\ serial.timerDelay = Ms(DefaultMaxReconnectDelay)

(***************************************************************************)
(* Claims about the inbound lines of the serial transport                  *)
(***************************************************************************)
\* The segments of a topic or pattern: the parts between slashes.
RECURSIVE Segments(_)
Segments(str) ==
  LET slashIndex == IndexOf(str, Slash)
  IN IF slashIndex = -1
       THEN <<str>>
       ELSE <<SubstringTo(str, slashIndex)>> \o Segments(SubstringFrom(str, slashIndex + 1))

\* The wildcard rule as the specification states it, on segments: + matches
\* exactly one segment, # matches the remaining segments.
RECURSIVE SegmentsMatch(_, _)
SegmentsMatch(pat, topic) ==
  IF pat = << >> THEN topic = << >>
  ELSE IF Head(pat) = <<Hash>> THEN Len(pat) = 1 /\ topic # << >>
  ELSE IF Head(pat) = <<Plus>>
    THEN topic # << >> /\ Head(topic) # << >> /\ SegmentsMatch(Tail(pat), Tail(topic))
  ELSE topic # << >> /\ Head(topic) = Head(pat) /\ SegmentsMatch(Tail(pat), Tail(topic))

IsWildcard(pat) == Includes(pat, Plus) \/ Includes(pat, Hash)

\* The frame's topic passes the subscription filter of the specification.
ShouldDeliver(topic) ==
  \/ subscribedTopics = {}
  \/ topic \in subscribedTopics
  \/ \E pat \in subscribedTopics :
       IsWildcard(pat) /\ SegmentsMatch(Segments(pat), Segments(topic))

\* C13: a received frame is delivered to the handlers iff the subscription
\* set is empty, contains the frame's topic, or contains a wildcard pattern
\* that matches it (+ one segment, # the remaining segments).
C13_DeliveredIffSubscribed ==
  [][((\E data \in Lines : handleIncomingMessage(data, {})) /\ delivery'.parsed) =>
       (delivery'.delivered <=> ShouldDeliver(delivery'.topic))]_vars

(***************************************************************************)
(* Claims about the broker transport                                       *)
(***************************************************************************)
\* C14: every message the broker client emits while connected is forwarded,
\* topic unchanged and payload as the string of its bytes, to each handler
\* registered on the transport with onMessage, whenever they were registered.
C14_BrokerMessagesForwarded ==
  [][(\E topic \in MqttTopics, payload \in Buffers : BrokerMessage(topic, payload)) =>
       mqttDelivery'.invoked =
         {<<handler, mqttDelivery'.topic, BufferToString(mqttDelivery'.payload)>> :
            handler \in mqtt.messageHandlers}]_vars

(***************************************************************************)
(* Claims about the MessageRouter                                          *)
(***************************************************************************)
\* The payload names a message type that has a registered handler.
Routable(messagePayload) ==
  LET message == JsonParse(messagePayload)
  IN /\ message.kind = "object"
     /\ message.messageType \in MessageTypes
     /\ router[message.messageType] # NoHandler

\* routeMessage is called with this payload.
Routes(messagePayload) ==
  \E topic \in MqttTopics, sync \in {"throws", "pending"} :
    RouteFromBus(topic, messagePayload, sync)

\* C15: routeMessage with a payload that is not JSON, has no messageType or
\* names a type without a registered handler resolves, invokes no handler,
\* publishes nothing and leaves the registry as it was.
C15_UnroutableIsDropped ==
  [][\A messagePayload \in RouterPayloads :
       (Routes(messagePayload) /\ ~Routable(messagePayload)) =>
         /\ routing'.pc = "resolved"
         /\ routing'.invoked = << >>
         /\ routing'.published = 0
         /\ router' = router]_vars

\* A message of a type without a handler has been routed and dropped, and
\* so has a payload that is not JSON.
C15_Witness ==
  /\ routing.pc = "resolved"
  /\ routing.invoked = << >>
  /\ \/ JsonParse(routing.payload).messageType = OtherType /\ router[OtherType] = NoHandler
     \/ routing.outcome = "SyntaxError"

\* C16: routeMessage with a payload whose type has a registered handler
\* invokes that handler, once, with the parsed message; however the handler
\* ends (it throws, its promise rejects, also after a publish), routeMessage
\* resolves and never rejects.
C16_HandlerInvokedOnceFailuresCaught ==
  [][/\ \A messagePayload \in RouterPayloads :
          (Routes(messagePayload) /\ Routable(messagePayload)) =>
            /\ routing'.invoked =
                 <<<<router[JsonParse(messagePayload).messageType], JsonParse(messagePayload)>>>>
            /\ routing'.pc \in {"awaitHandler", "resolved"}
     /\ routing.pc = "awaitHandler" =>
          /\ routing'.invoked = routing.invoked
          /\ routing'.pc \in {"awaitHandler", "resolved"}
     /\ routing'.pc # "rejected"]_vars

\* A handler's promise has rejected after it published, and routeMessage has
\* resolved.
C16_Witness ==
  /\ routing.pc = "resolved"
  /\ routing.outcome = "rejected"
  /\ routing.published = 1
  /\ Len(routing.invoked) = 1

(***************************************************************************)
(* Claims about the inbound side of the bus                                *)
(***************************************************************************)
\* The bus receives a message.
BusReceives ==
  \E topic \in MqttTopics, payload \in InboundPayloads, throwing \in SUBSET BusHandlers :
    BusHandleIncomingMessage(topic, payload, throwing)

\* C17: an inbound message is handed, within the one dispatch, exactly once
\* to each bus-level handler registered at that time, in registration
\* order, whichever of the handlers throw.
C17_EachHandlerOnceInOrder ==
  [][BusReceives =>
       /\ Len(dispatch') = Len(messageHandlers)
       /\ \A i \in 1..Len(messageHandlers) : dispatch'[i].handler = messageHandlers[i]
       /\ \A i, j \in 1..Len(dispatch') :
            /\ dispatch'[i].topic = dispatch'[j].topic
            /\ dispatch'[i].payload = dispatch'[j].payload
            /\ (i # j => dispatch'[i].handler # dispatch'[j].handler)]_vars

\* The first of three handlers threw and the other two were still called.
C17_Witness ==
  /\ Len(dispatch) = Cardinality(BusHandlers)
  /\ dispatch[1].threw
  /\ ~dispatch[2].threw

(***************************************************************************)
(* Claims about the registry                                               *)
(***************************************************************************)
\* C18: addTransport(name, t) makes name the primary only if no primary is
\* set at the call, and leaves a primary that is set unchanged, for every
\* kind of transport and every bus configuration.
C18_AddSetsPrimaryOnlyIfUnset ==
  [][\A n \in Names, o \in RegistryObjs :
       addTransport(n, o) =>
         primaryTransportName' = IF primaryTransportName = NoName
                                   THEN n ELSE primaryTransportName]_vars

RegisteredNames(m) == {m[i].name : i \in 1..Len(m)}

\* The name of the primary leaves the registry.
PrimaryRemoved ==
  /\ primaryTransportName \in RegisteredNames(transports)
  /\ primaryTransportName \notin RegisteredNames(transports')

C20_SetTransportChecksRegistry ==
  [][\A n \in Names :
       setTransport(n) =>
         IF n \in RegisteredNames(transports)
           THEN primaryTransportName' = n /\ thrown' = "none"
           ELSE /\ thrown' = NotFound
                /\ UNCHANGED <<transports, primaryTransportName>>]_vars

\* setTransport threw while a primary was set, and the primary is still set.
C20_Witness ==
  /\ thrown = NotFound
  /\ primaryTransportName # NoName
  /\ Len(transports) = 1

(***************************************************************************)
(* Claims about subscribe, connectAll, disconnectAll and the counters      *)
(***************************************************************************)
\* The registered transports that are connected, or that are not.
RegisteredWhere(up) == {o \in Range(MapValues(transports)) : connected[o] = up}

\* The call invoked the method of each of the targets, once.
IssuedExactlyTo(call, targets) ==
  /\ Range(call.issued) = targets
  /\ Len(call.issued) = Cardinality(targets)

\* C21: subscribe issues the subscription to every transport connected at the
\* call, whichever of them fail, and never rejects, also when no transport is
\* connected.
C21_SubscribeIssuedToAllConnected ==
  [][/\ \A failing \in SUBSET Objs :
          BusSubscribe(failing) =>
            /\ IssuedExactlyTo(fanout', RegisteredWhere(TRUE))
            /\ fanout'.pc # "rejected"
            /\ RegisteredWhere(TRUE) = {} => fanout'.pc = "resolved"
     /\ (AllSettled /\ fanout.op = "subscribe") => fanout'.pc = "resolved"]_vars

\* A subscribe has returned although the first of the two transports it was
\* issued to failed.
C21_Witness ==
  /\ fanout.op = "subscribe"
  /\ fanout.pc = "resolved"
  /\ Len(fanout.issued) >= 2
  /\ fanout.issued[1] \in fanout.failing
  /\ fanout.issued[2] \notin fanout.failing

\* C22: connectAll invokes connect on every registered transport that is not
\* connected and disconnectAll invokes disconnect on every one that is,
\* whichever of them fail, and the call resolves.
C22_ConnectAllDisconnectAllBestEffort ==
  [][/\ \A failing \in SUBSET Objs :
          /\ connectAll(failing) => IssuedExactlyTo(fanout', RegisteredWhere(FALSE))
          /\ disconnectAll(failing) => IssuedExactlyTo(fanout', RegisteredWhere(TRUE))
     /\ (AllSettled /\ fanout.op \in {"connectAll", "disconnectAll"}) =>
          /\ fanout'.pc = "resolved"
          /\ \A o \in Range(fanout.issued) \ fanout.failing :
               connected'[o] = (fanout.op = "connectAll")]_vars

\* A connectAll has resolved: the first transport failed to connect and the
\* second is connected.
C22_Witness ==
  /\ fanout.op = "connectAll"
  /\ fanout.pc = "resolved"
  /\ Len(fanout.issued) >= 2
  /\ fanout.issued[1] \in fanout.failing
  /\ ~connected[fanout.issued[1]]
  /\ connected[fanout.issued[2]]

\* A transport forwards an inbound message to the bus.
Forwarded ==
  \E topic \in MqttTopics, payload \in InboundPayloads :
    BusHandleIncomingMessage(topic, payload, {})

\* A call of addTransport, removeTransport (either part), setTransport,
\* subscribe, connectAll, disconnectAll (either part) or getStatus.
OtherBusCall ==
  \/ /\ Called
     /\ \/ \E o \in RegistryObjs : addTransport(o, o) \/ setTransport(o) \/ removeTransport(o)
        \/ \E failing \in SUBSET RegistryObjs :
             BusSubscribe(failing) \/ connectAll(failing) \/ disconnectAll(failing)
        \/ getStatus
  \/ \E r \in BagToSet(removals) : Disconnected(r)
  \/ AllSettled

\* C23: messagesSent and messagesReceived never decrease; messagesSent changes
\* only when a publish is accepted and messagesReceived only when a message
\* is forwarded, by exactly 1 for each; every other call on the bus leaves
\* both as they are.
C23_CountersOwnedByPublishAndReceive ==
  [][/\ messagesSent' >= messagesSent
     /\ messagesReceived' >= messagesReceived
     /\ messagesSent' # messagesSent => PublishAccepted(1)
     /\ messagesReceived' # messagesReceived => Forwarded
     /\ Forwarded => /\ messagesReceived' = messagesReceived + 1
                     /\ messagesSent' = messagesSent
     /\ PublishAccepted(1) => /\ messagesSent' = messagesSent + 1
                              /\ messagesReceived' = messagesReceived
     /\ OtherBusCall => UNCHANGED <<messagesSent, messagesReceived>>]_vars

\* Two messages were forwarded and one publish was accepted.
C23_Witness ==
  /\ messagesReceived = 2
  /\ messagesSent = 1

(***************************************************************************)
(* Claims about disconnect, publish and the inbound lines of the serial    *)
(* transport                                                               *)
(***************************************************************************)
\* The state disconnect() is to leave: not connected, auto-reconnect
\* suppressed, no reconnect timer pending.
DisconnectedState(s) ==
  /\ ~isConnected(s)
  /\ ~s.shouldAutoReconnect
  /\ ~TimerPending(s)

\* A disconnect() call resolves: at once when the port is not open, or when
\* the close it started completes.
DisconnectReturns ==
  \/ Disconnect /\ ~PortIsOpen(serial)
  \/ DisconnectCloses

\* C27: every disconnect() call, the first or a later one, in any state,
\* resolves leaving the transport not connected, with auto-reconnect
\* suppressed and no reconnect timer pending, and a call made in that state
\* leaves it in that state.
C27_DisconnectIdempotent ==
  [][/\ DisconnectReturns => DisconnectedState(serial')
     /\ (Disconnect /\ DisconnectedState(serial)) => DisconnectedState(serial')]_vars


(***************************************************************************)
(* SerialTransport.publish while not connected                             *)
(***************************************************************************)
\* C24: publish on a serial transport that is not connected fails with the
\* not-connected error, writes nothing to the port, and leaves the
\* connection and reconnect state (flags, attempts, delay, timers, ports) as
\* they were.
C24_PublishNotConnectedFails ==
  [][(Called /\ publish(<<"s">>, <<"p">>) /\ ~isConnected(serial))
       => /\ written'.outcome = "NotConnected"
          /\ written'.message = << >>
          /\ serial' = serial]_vars

\* publish has failed while a reconnection was scheduled.
C24_Witness ==
  /\ written.outcome = "NotConnected"
  /\ TimerPending(serial)


(***************************************************************************)
(* SerialTransport: lines without a colon                                  *)
(***************************************************************************)
\* The line handled last had no colon, and nothing was made of it.
Dropped(d) ==
  /\ ~d.parsed
  /\ d.topic = << >> /\ d.payload = << >>
  /\ ~d.delivered /\ d.calls = << >>

\* The line handled last was cut at its first colon.
SplitAtFirstColon(d) ==
  /\ d.parsed
  /\ ~Includes(d.topic, Colon)
  /\ d.line = d.topic \o <<Colon>> \o d.payload

\* C25: a line handed over by the parser is cut at its first ':' into topic
\* and payload; a line with no ':' is dropped: no handler is called and the
\* connection and reconnect state stay as they were; the line after a dropped
\* one is handled as any other.
C25_SplitAtFirstColon ==
  [][\A data \in IOLines, throwing \in SUBSET Throwers :
       LineArrives(data, throwing)
         => /\ delivery'.line = Trim(data)
            /\ serial' = serial
            /\ IF Includes(data, Colon)
                 THEN /\ SplitAtFirstColon(delivery')
                      /\ Len(delivery'.calls) = Len(serialHandlers)
                 ELSE Dropped(delivery')]_vars

\* A line whose payload holds a colon was delivered to a handler right after
\* a line without a colon had been dropped.
C25_Witness ==
  /\ delivery.line = <<"s", ":", "p", ":", "q">>
  /\ delivery.topic = <<"s">>
  /\ delivery.payload = <<"p", ":", "q">>
  /\ delivery.calls # << >>
  /\ delivery.afterDropped


(***************************************************************************)
(* Handlers of a transport                                                 *)
(***************************************************************************)
\* The handlers a forEach has called, in the order of the calls.
Callees(made) == [i \in 1..Len(made) |-> made[i].handler]

\* The serial transport: a line with a colon is handed once to each handler
\* registered at that time, in the order of registration, whichever of them
\* throw; a handler is registered once however often it was given to
\* onMessage, and not at all after removeMessageHandler.
C26_SerialHandlersEachOnce ==
  /\ [][\A data \in IOLines, throwing \in SUBSET Throwers :
          (LineArrives(data, throwing) /\ Includes(data, Colon))
            => /\ Callees(delivery'.calls) = serialHandlers
               /\ \A i \in 1..Len(delivery'.calls) :
                    /\ delivery'.calls[i].topic = delivery'.topic
                    /\ delivery'.calls[i].payload = delivery'.payload]_vars
  /\ [][\A handler \in SerialHandlers :
          (Called /\ removeMessageHandler(handler))
            => \A i \in 1..Len(serialHandlers') : serialHandlers'[i] # handler]_vars
  /\ [](\A i, j \in 1..Len(serialHandlers) :
          serialHandlers[i] = serialHandlers[j] => i = j)

\* The observer threw and the forwarder of the bus, registered after it, was
\* called all the same.
C26_SerialReached ==
  /\ Len(delivery.calls) = 2
  /\ delivery.calls[1].threw
  /\ delivery.calls[2].handler = "busForwarder"

\* C26: on each transport a message that passes the filter of the transport
\* is handed once to every handler registered with onMessage at that time.
\* Here for the broker transport: every registered handler is called once
\* for a message the client emits.
C26_EveryHandlerOncePerMessage ==
  [][(\E topic \in MqttTopics, payload \in Buffers : BrokerMessage(topic, payload)) =>
       \A handler \in mqtt.messageHandlers :
         Cardinality({call \in mqttDelivery'.invoked : call[1] = handler}) = 1]_vars


(***************************************************************************)
(* MessageRouter: the context of a dispatch                                *)
(***************************************************************************)
\* A context made for one dispatch from the topic and the message
ContextOf(topic, message) ==
  [defined |-> TRUE, originalTopic |-> topic, messageId |-> message.messageId]

\* C28: for each message it dispatches the router hands the handler the
\* message and a context made for this dispatch, whose originalTopic is the
\* topic the message arrived on and whose messageId is the id of the message.
C28_ContextPerDispatch ==
  [][\A topic \in MqttTopics, payload \in RouterPayloads, sync \in {"throws", "pending"} :
       (RouteFromBus(topic, payload, sync) /\ routing'.invoked # << >>)
         => /\ routing'.invoked = <<<<HandlerFor(JsonParse(payload).messageType), JsonParse(payload)>>>>
            /\ routing'.context = ContextOf(topic, JsonParse(payload))]_vars


(***************************************************************************)
(* MessagePublisher                                                        *)
(***************************************************************************)
\* C29: MessagePublisher.publish rejects with the not-initialized error and
\* hands nothing to the bus while no publisher is set; once setPublisher has
\* been given the bus, each publish starts one MessageBus.publish with the
\* same topic and payload, and settles as that call settles.
C29_PublishThroughFacade ==
  /\ [][\A topic \in FacadeTopics, payload \in FacadePayloads, c \in Calls :
          MessagePublisherPublish(topic, payload, c)
            => IF publisher = "null"
                 THEN /\ facade'.pc = "rejected"
                      /\ facade'.err = "NotInitialized"
                      /\ facade'.delegated = << >>
                      /\ calls' = calls
                      /\ messagesSent' = messagesSent
                 ELSE /\ facade'.delegated = <<topic, payload>>
                      /\ calls[c].pc = "idle"
                      /\ calls'[c].pc # "idle"
                      /\ \A d \in Calls \ {c} : calls'[d] = calls[d]]_vars
  /\ [][PublisherSettled
          => /\ facade'.pc = calls[facade.call].pc
             /\ facade'.err = calls[facade.call].err]_vars
  /\ [](publisher = "null" => \A c \in Calls : calls[c].pc = "idle")

\* A publish was refused before setPublisher, and a later one went to the
\* bus, which sent it by a fallback transport after the primary had failed.
C29_Witness ==
  /\ publisher = "bus"
  /\ facade.refused
  /\ facade.pc = "resolved"
  /\ facade.delegated = <<"unimix/status", "object">>
  /\ calls[facade.call].pc = "resolved"
  /\ Len(calls[facade.call].invoked) = 2


(***************************************************************************)
(* MessageRouter: the registry of handlers                                 *)
(***************************************************************************)
\* A query of the registry is being answered.
RouterQueried ==
  /\ opsIssued' = opsIssued + 1
  /\ \/ getSupportedMessageTypes
     \/ \E type \in MessageTypes : isMessageTypeSupported(type)

\* C30: registerHandler(type, h) puts h in the place of whatever handler the
\* type had and touches no other type; nothing else changes the registry,
\* the two queries included; a routed message of the type goes to the one
\* handler the registry holds for it, the one registered last.
C30_LastRegistrationWins ==
  /\ [][\A type \in MessageTypes, handler \in HandlerObjs :
          registerHandler(type, handler)
            => /\ HandlerFor(type)' = handler
               /\ \A other \in MessageTypes \ {type} : router'[other] = router[other]]_vars
  /\ [][router' # router
          => \E type \in MessageTypes, handler \in HandlerObjs :
               registerHandler(type, handler)]_vars
  /\ [][RouterQueried => router' = router /\ routing' = routing]_vars
  /\ [][\A messagePayload \in RouterPayloads :
          (Routes(messagePayload) /\ routing'.invoked # << >>)
            => /\ Len(routing'.invoked) = 1
               /\ routing'.invoked[1][1] = router[JsonParse(messagePayload).messageType]]_vars

\* A custom handler took the place of AudioStatusRequestHandler, the registry
\* was queried, and a status request then went to the custom handler alone.
C30_Witness ==
  /\ router[AUDIO_STATUS_REQUEST] = "customHandler"
  /\ opsIssued > 0
  /\ Len(routing.invoked) = 1
  /\ routing.invoked[1][1] = "customHandler"
  /\ routing.invoked[1][2].messageType = AUDIO_STATUS_REQUEST


(***************************************************************************)
(* SerialTransport: one timer, one attempt                                 *)
(***************************************************************************)
\* The connection attempts in flight: the port objects that are opening.
AttemptsInFlight(s) ==
  LET opening == {r \in BagToSet(s.oldPorts) : r.st = "opening"}
  IN (IF s.serialPort.st = "opening" THEN 1 ELSE 0)
       + BagCardinality([r \in opening |-> CopiesIn(r, s.oldPorts)])

\* C31: at any time at most one reconnect timer is pending and at most one
\* connection attempt is in flight, whatever the interleaving of calls, timer
\* expiries and port events.
C31_OneTimerOneAttempt ==
  /\ TimersPending(serial) <= 1
  /\ AttemptsInFlight(serial) <= 1


\* C32: whenever isReconnecting is true, a reconnect timer is pending or a
\* connection attempt is in flight.
C32_ReconnectingMeansRetryPending ==
  serial.isReconnecting => (TimerPending(serial) \/ AttemptInFlight(serial))


\* The last call made was disconnect(), and it has resolved: the port was
\* not open, or the close it started has completed.
DisconnectResolved ==
  /\ lastCall \in {"disconnect", "disconnectWhileReconnecting"}
  /\ ~(serial.serialPort.st = "closing" /\ serial.serialPort.cb = "disconnect")

\* C33: once disconnect() has resolved, isConnected() is false for as long as
\* neither connect() nor forceReconnect() is called, also when an attempt or
\* a timed retry was in flight at the time of the call.
C33_DisconnectedUntilConnect ==
  DisconnectResolved => ~isConnected(serial)


\* The transport is Connected and no reconnect timer is pending.
ConnectedAndQuiet(s) == isConnected(s) /\ ~TimerPending(s)

\* A step that is neither a call nor a fault of a port: a timer expires, a
\* port opens, or a close() completes.
NoCallNoFault == TimerFires \/ StrayTimerFires \/ PortOpened \/ PortClosed

\* C34: when the port the transport holds opens, the transport is Connected
\* with no reconnect timer pending, and stays so, starting no further
\* attempt, for as long as no port fails and no call is made, whatever calls
\* came before.
C34_OpenStaysConnected ==
  [][/\ (PortOpened /\ PortIsOpen(serial')) => ConnectedAndQuiet(serial')
     /\ (NoCallNoFault /\ ConnectedAndQuiet(serial))
          => /\ ConnectedAndQuiet(serial')
             /\ AttemptsInFlight(serial') <= AttemptsInFlight(serial)]_vars


(***************************************************************************)
(* SerialTransport: reconnection succeeds in the end                       *)
(***************************************************************************)
\* C35: with auto-reconnect on, unlimited attempts and no disconnect() or
\* disableAutoReconnect() call, a transport that has lost its connection or
\* failed to connect becomes Connected once the device is back for good, if
\* every scheduled timer fires and every open attempt completes.
C35_ReconnectsOnceOpenable ==
  (linkPhase = "back" /\ serial.reconnectAttempts > 0) ~> isConnected(serial)


(***************************************************************************)
(* Claims about the assembled application                                  *)
(***************************************************************************)
\* The serial transport hands a message to its handlers while the registry
\* of the bus does not hold it.
UnregisteredSerialLine ==
  /\ ~Registered(SerialObj)
  /\ \E data \in AppLines : SerialLine(data)

\* C36: the registry holds at most one transport per name, and a message of
\* a transport that was removed from the registry, or replaced in it under
\* its name, is neither counted in messagesReceived nor handed to the
\* handlers of the bus.
C36_OnlyRegisteredTransportsDeliver ==
  /\ [](\A i, j \in 1..Len(transports) : transports[i].name = transports[j].name => i = j)
  /\ [][UnregisteredSerialLine =>
          /\ messagesReceived' = messagesReceived
          /\ dispatch' = dispatch]_vars


\* C37: once stop() has resolved (disconnectAll has returned, no disconnect
\* having failed), no registered transport is connected, and none becomes
\* connected before start() calls connect() again.
C37_StoppedStaysDisconnected ==
  app.phase = "stopped" => \A o \in Objs : Registered(o) => ~connected[o]


\* start() has called MessageBus.subscribe with the configured topics.
SubscribeCalled == app.phase \in {"statusPublishing", "running", "stopping", "stopped"}

\* C38: once MessageBus.subscribe has been called with the configured
\* topics, a registered serial transport that is connected, at the call or
\* later, has them in its subscription set.
C38_SubscriptionReachesLateTransport ==
  (SubscribeCalled /\ Registered(SerialObj) /\ connected[SerialObj])
    => Subscriptions \subseteq subscribedTopics


\* C39: start() does not succeed when connect() of the configured primary
\* transport failed; it may succeed when that of another transport failed.
C39_PrimaryFailureFailsStart ==
  isRunning => app.primary \notin app.failed


(***************************************************************************)
(* SerialTransport: framing                                                *)
(***************************************************************************)
\* C40: the line that publish(topic, payload) writes is parsed back into
\* the same topic and the same payload, the payload character for
\* character.
C40_FrameRoundTrip ==
  [][FrameComesBack =>
       /\ delivery'.parsed
       /\ delivery'.topic = written.topic
       /\ delivery'.payload = written.payload]_vars

=============================================================================
